---------------------------- MODULE Spec2Model ----------------------------
(***************************************************************************)
(* File-share service: collections (folders) and files kept in a D1       *)
(* database, blobs kept in an R2 bucket, access gated by expiry, e-mail   *)
(* allow-list and password, and short-lived download tokens.              *)
(*                                                                         *)
(* Text values (ids, e-mails, passwords, URL parameters, hashes) are      *)
(* sequences of one-character strings, so that concatenation, parseInt,   *)
(* toLowerCase and single-character edits are computed, not assumed.      *)
(* SQL NULL and the empty string are both the empty sequence: the code    *)
(* tests these fields by truthiness only (x || null, !x, if (x)).         *)
(***************************************************************************)
EXTENDS Integers, Sequences, FiniteSets, TLC

(***************************************************************************)
(* Bounds of the model                                                     *)
(***************************************************************************)
MaxCollections == 3
MaxFiles == 2
DepthCollections == 4
MaxAccessLog == 1
AccessCollections == 2
AccessFiles == 1
TokenCollections == 1
UploadCollections == 1
UploadFiles == 3
MaxRunning == 2
StepCollections == 2
StepFiles == 1

(***************************************************************************)
(* Program constants                                                       *)
(***************************************************************************)
TOKEN_VALIDITY_MS == 300000
COLLECTION_TOKEN_VALIDITY_MS == 1800000
MAX_COLLECTION_DEPTH == 3

(***************************************************************************)
(* Text                                                                    *)
(***************************************************************************)
NULL == << >>

Truthy(s) == s # NULL

DigitChars == <<"0", "1", "2", "3", "4", "5", "6", "7", "8", "9">>

IsDigit(c) == \E i \in 1..10 : DigitChars[i] = c

DigitVal(c) == (CHOOSE i \in 1..10 : DigitChars[i] = c) - 1

IsSpace(c) == c = " "

\* Number.prototype.toString for the non-negative integers the model uses;
\* NaN (modelled as -1) prints as "NaN".
RECURSIVE Digits(_)
Digits(n) == IF n < 10 THEN <<DigitChars[n + 1]>>
             ELSE Digits(n \div 10) \o <<DigitChars[(n % 10) + 1]>>

NaN == -1

NumToStr(n) == IF n = NaN THEN <<"N", "a", "N">> ELSE Digits(n)

RECURSIVE SkipSpaces(_)
SkipSpaces(s) == IF s # << >> /\ IsSpace(Head(s)) THEN SkipSpaces(Tail(s)) ELSE s

RECURSIVE LeadingDigits(_)
LeadingDigits(s) == IF s # << >> /\ IsDigit(Head(s))
                    THEN <<Head(s)>> \o LeadingDigits(Tail(s))
                    ELSE << >>

RECURSIVE DigitsValue(_, _)
DigitsValue(s, acc) == IF s = << >> THEN acc
                       ELSE DigitsValue(Tail(s), acc * 10 + DigitVal(Head(s)))

\* parseInt(text, 10): leading white space is skipped, then the longest run
\* of decimal digits is read and whatever follows it is ignored; no digit
\* at all gives NaN.  (The inputs of the model carry no sign and no "0x".)
parseInt(s) ==
    LET d == LeadingDigits(SkipSpaces(s))
    IN IF d = << >> THEN NaN ELSE DigitsValue(d, 0)

UpperChars == <<"A", "B", "X", "C", "S">>
LowerChars == <<"a", "b", "x", "c", "s">>

LowerChar(c) == IF \E i \in 1..Len(UpperChars) : UpperChars[i] = c
                THEN LowerChars[CHOOSE i \in 1..Len(UpperChars) : UpperChars[i] = c]
                ELSE c

toLowerCase(s) == [i \in 1..Len(s) |-> LowerChar(s[i])]

RECURSIVE DropTrailingSpaces(_)
DropTrailingSpaces(s) == IF s # << >> /\ IsSpace(s[Len(s)])
                         THEN DropTrailingSpaces(SubSeq(s, 1, Len(s) - 1))
                         ELSE s

trim(s) == DropTrailingSpaces(SkipSpaces(s))

\* SHA-256 as an ideal hash: injective, and no digest is itself a message
\* the model hashes (the tag is not a character of any input).
sha256(message) == <<"sha256">> \o message

\* /^[^\s@]+@[^\s@]+\.[^\s@]+$/ : no white space, exactly one "@" with text
\* before it, and after it a "." that has text on both sides.
isValidEmail(email) ==
    /\ \A i \in 1..Len(email) : ~IsSpace(email[i])
    /\ Cardinality({i \in 1..Len(email) : email[i] = "@"}) = 1
    /\ LET at == CHOOSE i \in 1..Len(email) : email[i] = "@"
       IN /\ at > 1
          /\ \E j \in (at + 2)..(Len(email) - 1) : email[j] = "."


(***************************************************************************)
(* Request inputs                                                          *)
(***************************************************************************)
StartTime == 5000000

Users == {"u1", "u2"}
NoUser == ""

EmailA == <<"a", "@", "x", ".", "c">>
EmailAUpper == <<"A", "@", "X", ".", "C">>
EmailB == <<"b", "@", "x", ".", "c">>
EmailBad == <<"a", "b">>

Secret == <<"s", "e", "c", "r", "e", "t">>
SecretWrongCase == <<"S", "e", "c", "r", "e", "t">>

Title == <<"t">>

\* expires_at is a date; the model keeps its time value (ms), 0 for NULL.
NoExpiry == 0
PastExpiry == StartTime - 1000
SoonExpiry == StartTime + 1000

CollectionId(n) == <<"c">> \o Digits(n)
FileId(n) == <<"f">> \o Digits(n)

CollectionIds == {CollectionId(n) : n \in 1..MaxCollections}
FileIds == {FileId(n) : n \in 1..MaxFiles}

(***************************************************************************)
(* State                                                                   *)
(***************************************************************************)
VARIABLES
    collections,            \* table collections: id -> row
    files,                  \* table files: id -> row
    bucket,                 \* R2 bucket: key -> size of the stored object
    file_audit_log,         \* table file_audit_log, in insertion order
    access_logs,            \* table access_logs, in insertion order
    collection_access_logs, \* table collection_access_logs, in insertion order
    idCount,                \* ids drawn so far from generateFileId
    now,                    \* Date.now()
    resp,                   \* the last request and the response it got
    running                 \* requests under way: how far each has got, and its locals

vars == <<collections, files, bucket, file_audit_log, access_logs,
          collection_access_logs, idCount, now, resp, running>>

store == <<collections, files, bucket, file_audit_log, access_logs,
           collection_access_logs, idCount>>

NoRequest == [op |-> "none", status |-> 0, error |-> ""]

\* The requests the model runs statement by statement; every other request
\* runs from its first statement to its response without another in between.
Procs == 1..MaxRunning

Idle == [pc |-> "idle"]

Init ==
    /\ collections = << >>
    /\ files = << >>
    /\ bucket = << >>
    /\ file_audit_log = << >>
    /\ access_logs = << >>
    /\ collection_access_logs = << >>
    /\ idCount = 0
    /\ now = StartTime
    /\ resp = NoRequest
    /\ running = [p \in Procs |-> Idle]

\* generateFileId: twelve random characters; the model draws ids in turn,
\* never the same one twice.
NewCollectionId == CollectionId(Cardinality(DOMAIN collections) + 1)
NewFileId == FileId(idCount + 1)

Insert(table, id, row) == [k \in DOMAIN table \cup {id} |-> IF k = id THEN row ELSE table[k]]

\* SELECT ... FROM collections WHERE id = ? AND is_deleted = 0
LiveCollection(db, id) == id \in DOMAIN db /\ ~db[id].is_deleted

\* A faulty variant of LiveFile: the is_deleted column is not looked at.
ExistingFile(tbl, id) == id \in DOMAIN tbl

\* SELECT ... FROM files WHERE id = ? AND is_deleted = 0
LiveFile(tbl, id) == id \in DOMAIN tbl /\ ~tbl[id].is_deleted

\* A faulty variant of AdjustItemCount: the counter is left alone.
NoAdjust(db, id, d) == db

\* UPDATE collections SET item_count = item_count + d WHERE id = ?
AdjustItemCount(db, id, d) ==
    IF id \in DOMAIN db
    THEN [db EXCEPT ![id].item_count = @ + d]
    ELSE db

(***************************************************************************)
(* utils/share                                                             *)
(***************************************************************************)
isFileExpired(expiresAt, t) == expiresAt # NoExpiry /\ expiresAt < t

isCollectionExpired(expiresAt, t) == expiresAt # NoExpiry /\ expiresAt < t

RECURSIVE BreadcrumbWalk(_, _, _)
BreadcrumbWalk(db, currentId, breadcrumbs) ==
    IF ~Truthy(currentId) THEN breadcrumbs
    ELSE IF ~LiveCollection(db, currentId) THEN breadcrumbs
    ELSE BreadcrumbWalk(db, db[currentId].parent_id,
                        <<[id |-> currentId, title |-> db[currentId].title]>> \o breadcrumbs)

getCollectionBreadcrumbs(db, collectionId) == BreadcrumbWalk(db, collectionId, << >>)

BreadcrumbIds(db, collectionId) ==
    LET b == getCollectionBreadcrumbs(db, collectionId)
    IN {b[i].id : i \in 1..Len(b)}


(***************************************************************************)
(* Responses                                                               *)
(***************************************************************************)
\* The request (op and its inputs), the HTTP status, the error text (or ""),
\* and what a successful response carries.
Reply(op, req, status, error, out) ==
    [op |-> op, req |-> req, status |-> status, error |-> error, out |-> out]

Reject(op, req, status, error) == Reply(op, req, status, error, [none |-> TRUE])

(***************************************************************************)
(* POST /api/share/collections : create a root collection                  *)
(***************************************************************************)
CollectionRow(parentId, title, depth, userId, expiresAt, passwordHash, allowedEmails) ==
    [parent_id |-> parentId, title |-> title, depth |-> depth, item_count |-> 0,
     is_deleted |-> FALSE, user_id |-> userId, expires_at |-> expiresAt,
     password_hash |-> passwordHash, allowed_emails |-> allowedEmails]

CreateCollection(user, title, expiresAt, password, allowedEmails) ==
    LET req == [user |-> user, title |-> title]
        collectionId == NewCollectionId
    IN
    /\ UNCHANGED running
    /\ UNCHANGED <<files, bucket, file_audit_log, access_logs,
                   collection_access_logs, idCount, now>>
    /\ IF user = NoUser
       THEN /\ resp' = Reject("createCollection", req, 401, "Authentication required")
            /\ UNCHANGED collections
       ELSE IF ~Truthy(trim(title))
       THEN /\ resp' = Reject("createCollection", req, 400, "Title is required")
            /\ UNCHANGED collections
       ELSE /\ collections' = Insert(collections, collectionId,
                   CollectionRow(NULL, trim(title), 1, user, expiresAt,
                                 IF Truthy(password) THEN sha256(password) ELSE NULL,
                                 allowedEmails))
            /\ resp' = Reply("createCollection", req, 201, "", [id |-> collectionId])

(***************************************************************************)
(* POST /api/share/collections/[id]/... : create a sub-collection          *)
(***************************************************************************)
\* A faulty variant of DepthLimitReached: one level too many.
DepthLimitExceeded(depth) == depth > MAX_COLLECTION_DEPTH

DepthLimitReached(depth) == depth >= MAX_COLLECTION_DEPTH

\* INSERT INTO collections (id, parent_id, title, subtitle, depth, item_count)
\* then UPDATE collections SET item_count = item_count + 1 WHERE id = parent.
\* The row gets no user_id and no policy fields.
InsertSubCollection(db, collectionId, parentId, title, newDepth) ==
    AdjustItemCount(
        Insert(db, collectionId,
               CollectionRow(parentId, title, newDepth, NoUser, NoExpiry, NULL, << >>)),
        parentId, 1)

\* The route that checks the caller's token and the parent's owner.
CreateSubCollection(user, parentId, title) ==
    LET req == [user |-> user, parentId |-> parentId, title |-> title]
        op == "createSubCollection"
        collectionId == NewCollectionId
    IN
    /\ UNCHANGED running
    /\ UNCHANGED <<files, bucket, file_audit_log, access_logs,
                   collection_access_logs, idCount, now>>
    /\ IF user = NoUser
       THEN /\ resp' = Reject(op, req, 401, "Authentication required")
            /\ UNCHANGED collections
       ELSE IF ~Truthy(trim(title))
       THEN /\ resp' = Reject(op, req, 400, "Title is required")
            /\ UNCHANGED collections
       ELSE IF ~LiveCollection(collections, parentId)
       THEN /\ resp' = Reject(op, req, 404, "Parent collection not found")
            /\ UNCHANGED collections
       ELSE IF collections[parentId].user_id # user
       THEN /\ resp' = Reject(op, req, 403, "Access denied")
            /\ UNCHANGED collections
       ELSE IF DepthLimitReached(collections[parentId].depth)
       THEN /\ resp' = Reject(op, req, 400, "Maximum nesting depth reached")
            /\ UNCHANGED collections
       ELSE /\ collections' = InsertSubCollection(collections, collectionId, parentId,
                                  trim(title), collections[parentId].depth + 1)
            /\ resp' = Reply(op, req, 201, "",
                             [id |-> collectionId, depth |-> collections[parentId].depth + 1])

\* The repository holds a second route of the same shape, which checks
\* neither the caller's token nor the parent's owner.
CreateSubCollectionUnauth(parentId, title) ==
    LET req == [user |-> NoUser, parentId |-> parentId, title |-> title]
        op == "createSubCollectionUnauth"
        collectionId == NewCollectionId
    IN
    /\ UNCHANGED running
    /\ UNCHANGED <<files, bucket, file_audit_log, access_logs,
                   collection_access_logs, idCount, now>>
    /\ IF ~Truthy(trim(title))
       THEN /\ resp' = Reject(op, req, 400, "Title is required")
            /\ UNCHANGED collections
       ELSE IF ~LiveCollection(collections, parentId)
       THEN /\ resp' = Reject(op, req, 404, "Parent collection not found")
            /\ UNCHANGED collections
       ELSE IF DepthLimitReached(collections[parentId].depth)
       THEN /\ resp' = Reject(op, req, 400, "Maximum nesting depth reached")
            /\ UNCHANGED collections
       ELSE /\ collections' = InsertSubCollection(collections, collectionId, parentId,
                                  trim(title), collections[parentId].depth + 1)
            /\ resp' = Reply(op, req, 201, "",
                             [id |-> collectionId, depth |-> collections[parentId].depth + 1])

(***************************************************************************)
(* DELETE /api/share/collections/[id] : soft delete with cascade           *)
(***************************************************************************)
\* WITH RECURSIVE descendants AS (SELECT id FROM collections WHERE id = ?
\*   UNION ALL SELECT c.id FROM collections c JOIN descendants d ON c.parent_id = d.id)
RECURSIVE DescendantsFrom(_, _)
DescendantsFrom(db, found) ==
    LET more == {c \in DOMAIN db : db[c].parent_id \in found} \ found
    IN IF more = {} THEN found ELSE DescendantsFrom(db, found \cup more)

\* A faulty variant of Descendants: the cascade stops at the collection itself.
OnlyItself(db, id) == {id} \cap DOMAIN db

Descendants(db, id) == DescendantsFrom(db, {id} \cap DOMAIN db)

\* UPDATE collections SET is_deleted = 1 WHERE id IN (descendants), then, if
\* the collection has a parent, UPDATE ... item_count = item_count - 1 on it.
CascadeCollections(db, id) ==
    LET doomed == Descendants(db, id)
        marked == [c \in DOMAIN db |->
                     IF c \in doomed THEN [db[c] EXCEPT !.is_deleted = TRUE] ELSE db[c]]
    IN IF Truthy(db[id].parent_id)
       THEN AdjustItemCount(marked, db[id].parent_id, -1)
       ELSE marked

\* UPDATE files SET is_deleted = 1 WHERE collection_id IN (descendants)
CascadeFiles(db, tbl, id) ==
    [f \in DOMAIN tbl |->
       IF tbl[f].collection_id \in Descendants(db, id)
       THEN [tbl[f] EXCEPT !.is_deleted = TRUE]
       ELSE tbl[f]]

DeleteCollection(user, id) ==
    LET req == [user |-> user, id |-> id]
        op == "deleteCollection"
    IN
    /\ UNCHANGED running
    /\ UNCHANGED <<bucket, file_audit_log, access_logs,
                   collection_access_logs, idCount, now>>
    /\ IF user = NoUser
       THEN /\ resp' = Reject(op, req, 401, "Authentication required")
            /\ UNCHANGED <<collections, files>>
       ELSE IF ~LiveCollection(collections, id)
       THEN /\ resp' = Reject(op, req, 404, "Collection not found")
            /\ UNCHANGED <<collections, files>>
       ELSE IF collections[id].user_id # user
       THEN /\ resp' = Reject(op, req, 403, "Access denied")
            /\ UNCHANGED <<collections, files>>
       ELSE /\ collections' = CascadeCollections(collections, id)
            /\ files' = CascadeFiles(collections, files, id)
            /\ resp' = Reply(op, req, 200, "", [success |-> TRUE])

(***************************************************************************)
(* Uploads                                                                 *)
(***************************************************************************)
MAX_FILE_SIZE == 100 * 1024 * 1024

ALLOWED_EXTENSIONS == {"pdf", "csv", "xls", "xlsx", "doc", "docx", "jpg", "jpeg"}

\* The leading bytes of the upload are one of these kinds.
validateFileMagicBytes(file) ==
    CASE file.ext = "pdf" -> file.magic = "pdf"
      [] file.ext \in {"jpg", "jpeg"} -> file.magic = "jpeg"
      [] file.ext \in {"xls", "doc"} -> file.magic = "ole"
      [] file.ext \in {"xlsx", "docx"} -> file.magic = "zip"
      [] file.ext = "csv" -> TRUE
      [] OTHER -> FALSE

GoodFile == [present |-> TRUE, ext |-> "pdf", magic |-> "pdf", size |-> 10]
NoFile == [present |-> FALSE, ext |-> "", magic |-> "", size |-> 0]
BadExtensionFile == [GoodFile EXCEPT !.ext = "exe"]
BadMagicFile == [GoodFile EXCEPT !.magic = "zip"]
TooLargeFile == [GoodFile EXCEPT !.size = MAX_FILE_SIZE + 1]

\* What the form checks of an upload route answer, "" when they pass.
FileFormError(file) ==
    IF ~file.present THEN "No file provided"
    ELSE IF file.ext \notin ALLOWED_EXTENSIONS THEN "Unsupported file type"
    ELSE IF ~validateFileMagicBytes(file) THEN "Invalid file format"
    ELSE IF file.size > MAX_FILE_SIZE THEN "File size exceeds limit"
    ELSE ""

\* FILE_SHARE_BUCKET.put followed by FILE_SHARE_BUCKET.head of the same key.
\* The bucket is a collaborator: the object is stored whole ("stored"), is
\* not there afterwards ("missing"), or is there with another size
\* ("truncated").  head gives the size, or -1 for no object.
R2Outcomes == {"stored", "missing", "truncated"}

PutObject(b, key, size, r2) ==
    CASE r2 = "stored" -> Insert(b, key, size)
      [] r2 = "truncated" -> Insert(b, key, size - 1)
      [] OTHER -> b

\* A faulty variant of HeadObject: every key is reported present, at the
\* size of the uploads the model makes.
HeadSeesObject(b, key) == IF key \in DOMAIN b THEN b[key] ELSE 10

HeadObject(b, key) == IF key \in DOMAIN b THEN b[key] ELSE -1

\* A faulty variant of DeleteObject: the object stays.
KeepObject(b, key) == b

DeleteObject(b, key) == [k \in DOMAIN b \ {key} |-> b[k]]

AuditEntry(fileId, operation, key, status, message) ==
    [file_id |-> fileId, operation |-> operation, r2_key |-> key,
     status |-> status, error_message |-> message]

FileRow(key, size, collectionId, userId, expiresAt, passwordHash, allowedEmails) ==
    [r2_key |-> key, file_size |-> size, collection_id |-> collectionId,
     user_id |-> userId, expires_at |-> expiresAt, password_hash |-> passwordHash,
     allowed_emails |-> allowedEmails, download_count |-> 0, is_deleted |-> FALSE]

\* The part every verified upload route shares: put, head, verify, audit,
\* INSERT INTO files.  `counted` is the collection whose item_count the
\* route increments after the insert (NULL: none).
StoreUpload(op, req, file, r2, row, counted) ==
    LET fileId == NewFileId
        r2Key == fileId
        afterPut == PutObject(bucket, r2Key, file.size, r2)
        verification == HeadObject(afterPut, r2Key)
    IN
    /\ idCount' = idCount + 1
    /\ IF verification = -1
       THEN /\ bucket' = afterPut
            /\ file_audit_log' = Append(file_audit_log,
                   AuditEntry(fileId, "upload", r2Key, "failed", "not found after upload"))
            /\ resp' = Reject(op, req, 500, "Upload verification failed")
            /\ UNCHANGED <<files, collections>>
       ELSE IF verification # file.size
       THEN /\ bucket' = DeleteObject(afterPut, r2Key)
            /\ file_audit_log' = Append(file_audit_log,
                   AuditEntry(fileId, "upload", r2Key, "failed", "Size mismatch"))
            /\ resp' = Reject(op, req, 500, "Upload verification failed - size mismatch")
            /\ UNCHANGED <<files, collections>>
       ELSE /\ bucket' = afterPut
            /\ file_audit_log' = Append(file_audit_log,
                   AuditEntry(fileId, "upload", r2Key, "success", ""))
            /\ files' = Insert(files, fileId, [row EXCEPT !.r2_key = r2Key])
            /\ collections' = IF Truthy(counted)
                              THEN AdjustItemCount(collections, counted, 1)
                              ELSE collections
            /\ resp' = Reply(op, req, 201, "", [id |-> fileId])

\* POST /api/share/upload : a standalone file with its own policy
UploadFile(userId, file, expiresAt, password, allowedEmails, r2) ==
    LET req == [user |-> userId]
        op == "upload"
    IN
    /\ UNCHANGED running
    /\ UNCHANGED <<access_logs, collection_access_logs, now>>
    /\ IF FileFormError(file) # ""
       THEN /\ resp' = Reject(op, req, 400, FileFormError(file))
            /\ UNCHANGED <<collections, files, bucket, file_audit_log, idCount>>
       ELSE StoreUpload(op, req, file, r2,
                FileRow(NULL, file.size, NULL, userId, expiresAt,
                        IF Truthy(password) THEN sha256(password) ELSE NULL,
                        allowedEmails),
                NULL)

\* POST /api/share/collections/[id]/add-file, the route that checks the
\* caller's token and the collection's owner.
AddFile(user, collectionId, file, r2) ==
    LET req == [user |-> user, collectionId |-> collectionId]
        op == "addFile"
    IN
    /\ UNCHANGED running
    /\ UNCHANGED <<access_logs, collection_access_logs, now>>
    /\ IF user = NoUser
       THEN /\ resp' = Reject(op, req, 401, "Authentication required")
            /\ UNCHANGED <<collections, files, bucket, file_audit_log, idCount>>
       ELSE IF ~LiveCollection(collections, collectionId)
       THEN /\ resp' = Reject(op, req, 404, "Collection not found")
            /\ UNCHANGED <<collections, files, bucket, file_audit_log, idCount>>
       ELSE IF collections[collectionId].user_id # user
       THEN /\ resp' = Reject(op, req, 403, "Access denied")
            /\ UNCHANGED <<collections, files, bucket, file_audit_log, idCount>>
       ELSE IF FileFormError(file) # ""
       THEN /\ resp' = Reject(op, req, 400, FileFormError(file))
            /\ UNCHANGED <<collections, files, bucket, file_audit_log, idCount>>
       ELSE StoreUpload(op, req, file, r2,
                FileRow(NULL, file.size, collectionId, NoUser, NoExpiry, NULL, << >>),
                collectionId)

\* The repository holds a second add-file route of the same shape, which
\* checks neither the caller's token nor the collection's owner.
AddFileUnauth(collectionId, file, r2) ==
    LET req == [user |-> NoUser, collectionId |-> collectionId]
        op == "addFileUnauth"
    IN
    /\ UNCHANGED running
    /\ UNCHANGED <<access_logs, collection_access_logs, now>>
    /\ IF ~LiveCollection(collections, collectionId)
       THEN /\ resp' = Reject(op, req, 404, "Collection not found")
            /\ UNCHANGED <<collections, files, bucket, file_audit_log, idCount>>
       ELSE IF FileFormError(file) # ""
       THEN /\ resp' = Reject(op, req, 400, FileFormError(file))
            /\ UNCHANGED <<collections, files, bucket, file_audit_log, idCount>>
       ELSE StoreUpload(op, req, file, r2,
                FileRow(NULL, file.size, collectionId, NoUser, NoExpiry, NULL, << >>),
                collectionId)

(***************************************************************************)
(* DELETE /api/share/files/[id]                                            *)
(***************************************************************************)
\* FILE_SHARE_BUCKET.delete either removes the object or throws; a throw
\* is caught by the route, which answers 500 having written nothing.
DeleteFile(id, r2DeleteThrows) ==
    LET req == [id |-> id]
        op == "deleteFile"
    IN
    /\ UNCHANGED running
    /\ UNCHANGED <<access_logs, collection_access_logs, idCount, now>>
    /\ IF ~LiveFile(files, id)
       THEN /\ resp' = Reject(op, req, 404, "File not found")
            /\ UNCHANGED <<collections, files, bucket, file_audit_log>>
       ELSE IF r2DeleteThrows
       THEN /\ resp' = Reject(op, req, 500, "Failed to delete file")
            /\ UNCHANGED <<collections, files, bucket, file_audit_log>>
       ELSE /\ bucket' = DeleteObject(bucket, files[id].r2_key)
            /\ file_audit_log' = Append(file_audit_log,
                   AuditEntry(id, "delete", files[id].r2_key, "success", ""))
            /\ files' = [files EXCEPT ![id].is_deleted = TRUE]
            /\ collections' = IF Truthy(files[id].collection_id)
                              THEN AdjustItemCount(collections, files[id].collection_id, -1)
                              ELSE collections
            /\ resp' = Reply(op, req, 200, "", [success |-> TRUE])

(***************************************************************************)
(* E-mail validation and access decisions                                  *)
(***************************************************************************)
\* email.split('@')[1]
DomainOf(email) ==
    LET at == CHOOSE i \in 1..Len(email) : email[i] = "@"
    IN SubSeq(email, at + 1, Len(email))

\* The DNS lookup is a collaborator: these domains have an MX record.
MxDomains == {<<"x", ".", "c">>}

checkMxRecord(domain) == domain \in MxDomains

validateEmailFull(email) ==
    LET emailLower == trim(toLowerCase(email))
    IN IF ~isValidEmail(emailLower) THEN [valid |-> FALSE, reason |-> "invalid_format"]
       ELSE IF ~checkMxRecord(DomainOf(emailLower))
       THEN [valid |-> FALSE, reason |-> "no_mx_record"]
       ELSE [valid |-> TRUE, reason |-> ""]

\* allowedEmails.map(e => e.toLowerCase()).includes(email.toLowerCase())
EmailListed(allowedEmails, email) ==
    \E i \in 1..Len(allowedEmails) : toLowerCase(allowedEmails[i]) = toLowerCase(email)

\* `${id}:${email}:${timestamp}`
TokenData(id, email, timestamp) == id \o <<":">> \o email \o <<":">> \o timestamp

generateCollectionToken(collectionId, email, timestamp) ==
    sha256(TokenData(collectionId, email, NumToStr(timestamp)))

\* A faulty variant of TokenTooOld: the window closes one instant early.
TokenTooOldAtWindow(t, timestamp, window) == timestamp # NaN /\ t - timestamp >= window

\* now - timestamp > window, as JavaScript compares: false when timestamp is NaN
TokenTooOld(t, timestamp, window) == timestamp # NaN /\ t - timestamp > window

validateCollectionToken(collectionId, email, token, timestamp, t) ==
    IF TokenTooOld(t, timestamp, COLLECTION_TOKEN_VALIDITY_MS) THEN FALSE
    ELSE token = generateCollectionToken(collectionId, email, timestamp)

\* A faulty variant of PolicyCollection: the collection asked for, not its root.
NearestCollection(breadcrumbs) == breadcrumbs[Len(breadcrumbs)].id

\* breadcrumbs[0].id : permissions are inherited from the root
PolicyCollection(breadcrumbs) == breadcrumbs[1].id

Denied(reason) == [allowed |-> FALSE, reason |-> reason, rootCollectionId |-> NULL]

checkCollectionAccess(db, collectionId, email, password, t) ==
    LET breadcrumbs == getCollectionBreadcrumbs(db, collectionId)
        rootId == PolicyCollection(breadcrumbs)
        rootCollection == db[rootId]
    IN IF Len(breadcrumbs) = 0 THEN Denied("Collection not found")
       ELSE IF ~LiveCollection(db, rootId) THEN Denied("Collection not found")
       ELSE IF isCollectionExpired(rootCollection.expires_at, t)
       THEN Denied("Collection has expired")
       ELSE IF /\ Len(rootCollection.allowed_emails) > 0
               /\ ~EmailListed(rootCollection.allowed_emails, email)
       THEN Denied("Email not authorized")
       ELSE IF Truthy(rootCollection.password_hash) /\ ~Truthy(password)
       THEN Denied("Password required")
       ELSE IF /\ Truthy(rootCollection.password_hash)
               /\ sha256(password) # rootCollection.password_hash
       THEN Denied("Invalid password")
       ELSE [allowed |-> TRUE, reason |-> "", rootCollectionId |-> rootId]

\* What the file validate-access route answers: status, error text, and the
\* failure_reason it writes to access_logs ("" : success, "-" : no entry).
\* It reads expires_at, allowed_emails and password_hash of the file's own row.
FileAccessDecision(tbl, fileId, email, password, t) ==
    LET file == tbl[fileId]
        Decision(status, error, logged) ==
            [status |-> status, error |-> error, logged |-> logged]
    IN IF ~Truthy(email) THEN Decision(400, "Email is required", "-")
       ELSE IF validateEmailFull(email).reason = "no_mx_record"
       THEN Decision(400, "This email domain does not appear to receive emails", "-")
       ELSE IF ~validateEmailFull(email).valid
       THEN Decision(400, "Please enter a valid email address", "-")
       ELSE IF ~LiveFile(tbl, fileId) THEN Decision(404, "File not found", "-")
       ELSE IF isFileExpired(file.expires_at, t)
       THEN Decision(410, "This file has expired", "File expired")
       ELSE IF Len(file.allowed_emails) > 0 /\ ~EmailListed(file.allowed_emails, email)
       THEN Decision(403, "Your email is not authorized to access this file",
                   "Email not authorized")
       ELSE IF Truthy(file.password_hash) /\ ~Truthy(password)
       THEN Decision(401, "Password required", "-")
       ELSE IF Truthy(file.password_hash) /\ sha256(password) # file.password_hash
       THEN Decision(401, "Incorrect password", "Invalid password")
       ELSE Decision(200, "", "")

(***************************************************************************)
(* POST /api/usage/log : validate access to a file                         *)
(***************************************************************************)
AccessLogEntry(fileId, email, success, failureReason) ==
    [file_id |-> fileId, email |-> email, action |-> "download",
     success |-> success, failure_reason |-> failureReason]

\* A faulty variant of logAccess: the new row takes the place of the table's
\* rows.
logAccessReplacing(db, fileId, email, success, failureReason) ==
    <<AccessLogEntry(fileId, email, success, failureReason)>>

\* INSERT INTO access_logs (the action is always 'download')
logAccess(db, fileId, email, success, failureReason) ==
    Append(db, AccessLogEntry(fileId, email, success, failureReason))

ValidateFileAccess(fileId, email, password) ==
    LET req == [id |-> fileId, email |-> email, password |-> password]
        op == "validateFileAccess"
        d == FileAccessDecision(files, fileId, email, password, now)
        timestamp == now
        accessToken == sha256(TokenData(fileId, email, NumToStr(timestamp)))
    IN
    /\ UNCHANGED running
    /\ UNCHANGED <<collections, bucket, file_audit_log, collection_access_logs,
                   idCount, now>>
    /\ IF d.status = 200
       THEN /\ access_logs' = logAccess(access_logs, fileId, email, TRUE, "")
            /\ files' = [files EXCEPT ![fileId].download_count = @ + 1]
            /\ resp' = Reply(op, req, 200, "",
                   [token |-> accessToken, t |-> NumToStr(timestamp), email |-> email])
       ELSE IF d.logged # "-"
       THEN /\ access_logs' = logAccess(access_logs, fileId, email, FALSE, d.logged)
            /\ resp' = Reject(op, req, d.status, d.error)
            /\ UNCHANGED files
       ELSE /\ resp' = Reject(op, req, d.status, d.error)
            /\ UNCHANGED <<files, access_logs>>

(***************************************************************************)
(* POST /api/share/collections/[id]/validate-access                        *)
(***************************************************************************)
CollectionLogEntry(collectionId, email, action, success, failureReason) ==
    [collection_id |-> collectionId, email |-> email, action |-> action,
     success |-> success, failure_reason |-> failureReason]

ValidateCollectionAccess(id, email, password) ==
    LET req == [id |-> id, email |-> email, password |-> password]
        op == "validateCollectionAccess"
        emailValidation == validateEmailFull(email)
        emailError == IF emailValidation.reason = "invalid_format"
                      THEN "Invalid email format" ELSE "Invalid email domain"
        accessResult == checkCollectionAccess(collections, id, email, password, now)
        timestamp == now
        rootCollectionId == accessResult.rootCollectionId
        token == generateCollectionToken(rootCollectionId, email, timestamp)
    IN
    /\ UNCHANGED running
    /\ UNCHANGED <<collections, files, bucket, file_audit_log, access_logs,
                   idCount, now>>
    /\ IF ~Truthy(email)
       THEN /\ resp' = Reject(op, req, 400, "Email is required")
            /\ UNCHANGED collection_access_logs
       ELSE /\ IF ~emailValidation.valid
               THEN /\ collection_access_logs' = Append(collection_access_logs,
                           CollectionLogEntry(id, email, "view", FALSE, emailError))
                    /\ resp' = Reject(op, req, 400, emailError)
               ELSE /\ collection_access_logs' = Append(collection_access_logs,
                           CollectionLogEntry(id, email, "view", accessResult.allowed,
                                              accessResult.reason))
                    /\ resp' = IF ~accessResult.allowed
                               THEN Reject(op, req, 403, accessResult.reason)
                               ELSE Reply(op, req, 200, "",
                                       [token |-> token, t |-> NumToStr(timestamp),
                                        root_collection_id |-> rootCollectionId,
                                        email |-> email,
                                        breadcrumbs |-> getCollectionBreadcrumbs(collections, id)])

(***************************************************************************)
(* GET /api/share/download/[id] : download a file with a file token        *)
(***************************************************************************)
Answer(status, error) == [status |-> status, error |-> error]

\* token, timestamp and email are the URL parameters as text (NULL: absent).
FileDownloadDecision(tbl, b, id, token, timestamp, email, t) ==
    LET tokenTime == parseInt(timestamp)
        expectedToken == sha256(TokenData(id, email, timestamp))
    IN IF ~Truthy(token) \/ ~Truthy(timestamp) \/ ~Truthy(email)
       THEN Answer(400, "Invalid download link")
       ELSE IF TokenTooOld(t, tokenTime, TOKEN_VALIDITY_MS)
       THEN Answer(410, "Download link has expired. Please request access again.")
       ELSE IF token # expectedToken THEN Answer(403, "Invalid download link")
       ELSE IF ~LiveFile(tbl, id) THEN Answer(404, "File not found")
       ELSE IF tbl[id].r2_key \notin DOMAIN b THEN Answer(404, "File not found in storage")
       ELSE Answer(200, "")

DownloadFile(id, token, timestamp, email) ==
    LET req == [id |-> id, token |-> token, t |-> timestamp, email |-> email]
        d == FileDownloadDecision(files, bucket, id, token, timestamp, email, now)
    IN
    /\ UNCHANGED running
    /\ UNCHANGED <<store, now>>
    /\ resp' = IF d.status = 200
               THEN Reply("downloadFile", req, 200, "", [size |-> bucket[files[id].r2_key]])
               ELSE Reject("downloadFile", req, d.status, d.error)

(***************************************************************************)
(* GET /api/share/collections/[id]/contents : browse with a collection     *)
(* token                                                                   *)
(***************************************************************************)
\* A faulty variant of isUnderRoot: every collection passes.
UnderAnyRoot(breadcrumbs, rootId) == TRUE

\* breadcrumbs.some(b => b.id === rootId)
isUnderRoot(breadcrumbs, rootId) == \E i \in 1..Len(breadcrumbs) : breadcrumbs[i].id = rootId

\* The checks the browse route and the collection download route share
\* once the target is known to be there: token first, then (after
\* `found`) the subtree, then the root's expiry.
CollectionTokenError(token, timestamp, email, rootId, t) ==
    IF ~Truthy(token) \/ ~Truthy(timestamp) \/ ~Truthy(email) \/ ~Truthy(rootId)
    THEN "Missing access token"
    ELSE IF ~validateCollectionToken(rootId, email, token, parseInt(timestamp), t)
    THEN "Invalid or expired access token"
    ELSE ""

RootExpired(db, rootId, t) ==
    LiveCollection(db, rootId) /\ isCollectionExpired(db[rootId].expires_at, t)

ContentsDecision(db, id, token, timestamp, email, rootId, t) ==
    IF CollectionTokenError(token, timestamp, email, rootId, t) # ""
    THEN Answer(401, CollectionTokenError(token, timestamp, email, rootId, t))
    ELSE IF ~LiveCollection(db, id) THEN Answer(404, "Collection not found")
    ELSE IF ~isUnderRoot(getCollectionBreadcrumbs(db, id), rootId)
    THEN Answer(403, "Access denied to this collection")
    ELSE IF RootExpired(db, rootId, t) THEN Answer(410, "Collection has expired")
    ELSE Answer(200, "")

\* WHERE parent_id = ? AND is_deleted = 0 / WHERE collection_id = ? AND is_deleted = 0
LiveChildCollections(db, id) == {c \in DOMAIN db : db[c].parent_id = id /\ ~db[c].is_deleted}

LiveChildFiles(tbl, id) == {f \in DOMAIN tbl : tbl[f].collection_id = id /\ ~tbl[f].is_deleted}

GetCollectionContents(id, token, timestamp, email, rootId) ==
    LET req == [id |-> id, token |-> token, t |-> timestamp, email |-> email,
                root |-> rootId]
        op == "getCollectionContents"
        d == ContentsDecision(collections, id, token, timestamp, email, rootId, now)
    IN
    /\ UNCHANGED running
    /\ UNCHANGED <<store, now>>
    /\ resp' = IF d.status = 200
               THEN Reply(op, req, 200, "",
                      [item_count |-> collections[id].item_count,
                       children |-> LiveChildCollections(collections, id)
                                        \cup LiveChildFiles(files, id)])
               ELSE Reject(op, req, d.status, d.error)

(***************************************************************************)
(* GET /api/share/collections/[id]/download/[fileId]                       *)
(***************************************************************************)
CollectionDownloadDecision(db, tbl, b, collectionId, fileId, token, timestamp, email, rootId, t) ==
    IF CollectionTokenError(token, timestamp, email, rootId, t) # ""
    THEN Answer(401, CollectionTokenError(token, timestamp, email, rootId, t))
    ELSE IF ~LiveFile(tbl, fileId) THEN Answer(404, "File not found")
    ELSE IF tbl[fileId].collection_id # collectionId
    THEN Answer(404, "File not found in this collection")
    ELSE IF ~isUnderRoot(getCollectionBreadcrumbs(db, collectionId), rootId)
    THEN Answer(403, "Access denied")
    ELSE IF RootExpired(db, rootId, t) THEN Answer(410, "Collection has expired")
    ELSE IF tbl[fileId].r2_key \notin DOMAIN b THEN Answer(404, "File not found in storage")
    ELSE Answer(200, "")

\* (The route's last statement, UPDATE collections SET download_count, names
\* a column no handler reads and the CREATE TABLE does not list; the model
\* keeps no such field.)
DownloadCollectionFile(collectionId, fileId, token, timestamp, email, rootId) ==
    LET req == [id |-> collectionId, fileId |-> fileId, token |-> token,
                t |-> timestamp, email |-> email, root |-> rootId]
        op == "downloadCollectionFile"
        d == CollectionDownloadDecision(collections, files, bucket, collectionId, fileId,
                                        token, timestamp, email, rootId, now)
        r2Key == files[fileId].r2_key
    IN
    /\ UNCHANGED running
    /\ UNCHANGED <<collections, bucket, access_logs, idCount, now>>
    /\ IF d.status = 200
       THEN /\ file_audit_log' = Append(file_audit_log,
                   AuditEntry(fileId, "download", r2Key, "success", ""))
            /\ collection_access_logs' = Append(collection_access_logs,
                   CollectionLogEntry(collectionId, email, "download_file", TRUE, ""))
            /\ files' = [files EXCEPT ![fileId].download_count = @ + 1]
            /\ resp' = Reply(op, req, 200, "", [size |-> bucket[r2Key]])
       ELSE IF d.error = "File not found in storage"
       THEN /\ file_audit_log' = Append(file_audit_log,
                   AuditEntry(fileId, "download", r2Key, "missing",
                              "File not found in R2 storage (collection download)"))
            /\ resp' = Reject(op, req, 404, d.error)
            /\ UNCHANGED <<files, collection_access_logs>>
       ELSE /\ resp' = Reject(op, req, d.status, d.error)
            /\ UNCHANGED <<files, file_audit_log, collection_access_logs>>

(***************************************************************************)
(* Time passes                                                             *)
(***************************************************************************)
Tick(d) ==
    /\ now' = now + d
    /\ UNCHANGED <<store, resp, running>>

(***************************************************************************)
(* The hierarchy: every route that creates, fills or deletes collections   *)
(* and files.  These routes never read a policy field, so the resources    *)
(* are created without one.                                                *)
(***************************************************************************)
Callers == Users \cup {NoUser}

FileInputs == {GoodFile, BadMagicFile}

\* The stores this specification explores: at most MaxCollections collection
\* rows and MaxFiles generated file ids.  A request that would grow the store
\* beyond that is left out; every rejection stays in.
HierarchySize == Cardinality(DOMAIN collections) <= MaxCollections /\ idCount <= MaxFiles

Next ==
    \/ \E u \in {"u1", NoUser} :
           CreateCollection(u, Title, NoExpiry, NULL, << >>) /\ HierarchySize'
    \/ \E u \in Callers, c \in CollectionIds :
           CreateSubCollection(u, c, Title) /\ HierarchySize'
    \/ \E c \in CollectionIds : CreateSubCollectionUnauth(c, Title) /\ HierarchySize'
    \/ \E u \in Callers, c \in CollectionIds : DeleteCollection(u, c)
    \/ UploadFile("u1", GoodFile, NoExpiry, NULL, << >>, "stored") /\ HierarchySize'
    \/ \E u \in Callers, c \in CollectionIds :
           AddFile(u, c, GoodFile, "stored") /\ HierarchySize'
    \/ \E c \in CollectionIds, f \in FileInputs, r \in R2Outcomes :
           AddFileUnauth(c, f, r) /\ HierarchySize'
    \/ \E f \in FileIds, x \in BOOLEAN : DeleteFile(f, x)

Spec == Init /\ [][Next]_vars

(***************************************************************************)
(* Properties of the hierarchy                                             *)
(***************************************************************************)
LiveChildCount(c) ==
    Cardinality(LiveChildCollections(collections, c)) + Cardinality(LiveChildFiles(files, c))

\* C1, as stated: after any sequence of completed requests every collection's
\* item_count equals the number of its non-deleted direct children
\* (sub-collections whose parent_id is it plus files whose collection_id is it).
C1_EveryCollectionCounts ==
    \A c \in DOMAIN collections : collections[c].item_count = LiveChildCount(c)

\* C1, amended: after any sequence of completed requests every non-deleted
\* collection's item_count equals the number of its non-deleted direct
\* children.  (The cascade of delete-collection marks rows deleted and leaves
\* the counters of the rows it deletes as they were.)
C1_LiveCollectionCounts ==
    \A c \in DOMAIN collections :
        ~collections[c].is_deleted => collections[c].item_count = LiveChildCount(c)

\* A non-deleted collection that holds a sub-collection, after a file of it
\* has been added and deleted again, while another collection was deleted.
C1_Witness ==
    \E c \in DOMAIN collections :
        /\ ~collections[c].is_deleted
        /\ collections[c].item_count = 1
        /\ LiveChildCollections(collections, c) # {}
        /\ \E f \in DOMAIN files : files[f].collection_id = c /\ files[f].is_deleted
        /\ \E d \in DOMAIN collections : collections[d].is_deleted

\* The collections met when following parent links upwards from d, d included
\* (deleted rows too: the links stay when a row is marked deleted).
RECURSIVE ParentChain(_, _)
ParentChain(db, d) ==
    IF d \notin DOMAIN db THEN {}
    ELSE {d} \cup ParentChain(db, db[d].parent_id)

\* What a listing shows: the non-deleted rows.
Listed(db, tbl) ==
    {c \in DOMAIN db : ~db[c].is_deleted} \cup {f \in DOMAIN tbl : ~tbl[f].is_deleted}

\* db2, tbl2 is what delete-collection on c makes of db, tbl.
CascadeDone(c, db, tbl, db2, tbl2) ==
    LET gone == {d \in DOMAIN db : c \in ParentChain(db, d)}
        goneFiles == {f \in DOMAIN tbl : tbl[f].collection_id \in gone}
        parentId == db[c].parent_id
    IN /\ DOMAIN db2 = DOMAIN db /\ DOMAIN tbl2 = DOMAIN tbl
       /\ \A d \in gone : db2[d].is_deleted
       /\ \A f \in goneFiles : tbl2[f].is_deleted
       /\ Listed(db2, tbl2) \cap (gone \cup goneFiles) = {}
       /\ \A d \in DOMAIN db :
             db2[d].item_count = IF d = parentId THEN db[d].item_count - 1
                                 ELSE db[d].item_count

C4_Statements ==
    \A c \in DOMAIN collections :
        LiveCollection(collections, c) =>
            CascadeDone(c, collections, files,
                        CascadeCollections(collections, c),
                        CascadeFiles(collections, files, c))

C4_Request ==
    \A c \in DOMAIN collections :
        ( /\ LiveCollection(collections, c)
          /\ resp'.op = "deleteCollection" /\ resp'.status = 200 /\ resp'.req.id = c )
        => CascadeDone(c, collections, files, collections', files')

\* C4: a delete-collection request on C that succeeds marks C, every
\* collection reachable from C through parent links and every file of those
\* collections deleted, none of them is listed afterwards; the parent of C, if
\* it has one, counts one item less and no other item_count changes.  The
\* same holds of the statements the route runs once its owner check has
\* passed, on every non-deleted collection of every reachable store.
C4_CascadeDelete == []C4_Statements /\ [][C4_Request]_vars

\* A root was deleted with a sub-collection at depth 3 below it and a file
\* in a sub-collection, which the cascade (no delete-file request) deleted.
C4_Witness ==
    /\ resp.op = "deleteCollection" /\ resp.status = 200
    /\ \E d \in DOMAIN collections :
          /\ collections[d].depth = 3 /\ collections[d].is_deleted
          /\ resp.req.id \in ParentChain(collections, d)
    /\ \E f \in DOMAIN files :
          /\ files[f].is_deleted
          /\ files[f].collection_id \in DOMAIN collections
          /\ files[f].collection_id # resp.req.id
          /\ resp.req.id \in ParentChain(collections, files[f].collection_id)
          /\ \A i \in 1..Len(file_audit_log) :
                ~(file_audit_log[i].file_id = f /\ file_audit_log[i].operation = "delete")

(***************************************************************************)
(* Nesting depth: the collection routes alone, on stores of up to          *)
(* DepthCollections rows, one more than the deepest chain the code allows. *)
(***************************************************************************)
DepthCollectionIds == {CollectionId(n) : n \in 1..DepthCollections}

DepthSize == Cardinality(DOMAIN collections) <= DepthCollections

DepthNext ==
    \/ \E u \in {"u1", NoUser} :
           CreateCollection(u, Title, NoExpiry, NULL, << >>) /\ DepthSize'
    \/ \E u \in Callers, c \in DepthCollectionIds :
           CreateSubCollection(u, c, Title) /\ DepthSize'
    \/ \E c \in DepthCollectionIds : CreateSubCollectionUnauth(c, Title) /\ DepthSize'
    \/ \E u \in Callers, c \in DepthCollectionIds : DeleteCollection(u, c)

DepthSpec == Init /\ [][DepthNext]_vars

C10_Depths ==
    \A c \in DOMAIN collections :
        /\ collections[c].depth \in 1..3
        /\ ~Truthy(collections[c].parent_id) => collections[c].depth = 1
        /\ Truthy(collections[c].parent_id) =>
              /\ collections[c].parent_id \in DOMAIN collections
              /\ collections[c].depth = collections[collections[c].parent_id].depth + 1

C10_Request ==
    \A p \in DOMAIN collections :
        ( /\ LiveCollection(collections, p) /\ collections[p].depth = 3
          /\ resp'.op \in {"createSubCollection", "createSubCollectionUnauth"}
          /\ resp'.req.parentId = p )
        => /\ collections' = collections
           /\ resp'.status \in {400, 401, 403}
           /\ resp'.status = 400 => resp'.error = "Maximum nesting depth reached"
           /\ resp'.status = 401 => resp'.req.user = NoUser
           /\ resp'.status = 403 => resp'.req.user # collections[p].user_id
           /\ resp'.op = "createSubCollectionUnauth" => resp'.status = 400

Policy(expiresAt, password, allowedEmails) ==
    [expires_at |-> expiresAt, password |-> password, allowed_emails |-> allowedEmails]

Guarded == Policy(NoExpiry, Secret, <<EmailA>>)
Lapsed == Policy(PastExpiry, Secret, <<EmailA>>)
Policies == {Guarded, Lapsed}

Emails == {EmailA, EmailAUpper, EmailB}
Passwords == {NULL, Secret, SecretWrongCase}

\* The requests the validate-access routes are sent: e-mail and password.
Credentials ==
    {<<EmailA, Secret>>, <<EmailB, NULL>>, <<EmailA, NULL>>, <<EmailBad, Secret>>}

AccessSize ==
    /\ Cardinality(DOMAIN collections) <= AccessCollections
    /\ idCount <= AccessFiles
    /\ Len(access_logs) + Len(collection_access_logs) <= MaxAccessLog

AccessNext ==
    \/ \E pol \in Policies :
           /\ CreateCollection("u1", Title, pol.expires_at, pol.password, pol.allowed_emails)
           /\ AccessSize'
    \/ \E c \in CollectionIds : CreateSubCollection("u1", c, Title) /\ AccessSize'
    \/ \E c \in CollectionIds : DeleteCollection("u1", c)
    \/ \E pol \in Policies :
           /\ UploadFile("u1", GoodFile, pol.expires_at, pol.password,
                         pol.allowed_emails, "stored")
           /\ AccessSize'
    \/ \E c \in CollectionIds : AddFile("u1", c, GoodFile, "stored") /\ AccessSize'
    \/ \E f \in FileIds : DeleteFile(f, FALSE)
    \/ \E f \in FileIds, cr \in Credentials : ValidateFileAccess(f, cr[1], cr[2]) /\ AccessSize'
    \/ \E c \in CollectionIds, cr \in Credentials :
           ValidateCollectionAccess(c, cr[1], cr[2]) /\ AccessSize'

AccessSpec == Init /\ [][AccessNext]_vars

(***************************************************************************)
(* Properties of access validation                                         *)
(***************************************************************************)
\* The root of the tree of c: follow parent links until parent_id is null.
RootOf(db, c) == CHOOSE r \in ParentChain(db, c) : ~Truthy(db[r].parent_id)

\* The row whose policy is the effective policy of a resource: a file's own
\* row when it has no collection, otherwise the root collection's row.
EffectiveFilePolicy(db, tbl, f) ==
    IF Truthy(tbl[f].collection_id) THEN db[RootOf(db, tbl[f].collection_id)] ELSE tbl[f]

EffectiveCollectionPolicy(db, c) == db[RootOf(db, c)]

PolicyExpired(row, t) == row.expires_at # NoExpiry /\ row.expires_at < t

PolicyListsEmail(row, email) ==
    \/ Len(row.allowed_emails) = 0
    \/ \E i \in 1..Len(row.allowed_emails) :
          toLowerCase(row.allowed_emails[i]) = toLowerCase(email)

\* The first check of the fixed order that fails, or "granted".
FirstFailure(exists, row, email, password, t) ==
    IF ~exists THEN "not-found"
    ELSE IF PolicyExpired(row, t) THEN "expired"
    ELSE IF ~PolicyListsEmail(row, email) THEN "email-not-authorized"
    ELSE IF row.password_hash # NULL /\ password = NULL THEN "password-required"
    ELSE IF row.password_hash # NULL /\ sha256(password) # row.password_hash
    THEN "incorrect-password"
    ELSE "granted"

Admits(row, email, password, t) == FirstFailure(TRUE, row, email, password, t) = "granted"

\* The reason a response of a validate-access route gives.
ReasonGiven(r) ==
    IF r.status = 200 THEN "granted"
    ELSE CASE r.error \in {"File not found", "Collection not found"} -> "not-found"
           [] r.error \in {"This file has expired", "Collection has expired"} -> "expired"
           [] r.error \in {"Your email is not authorized to access this file",
                           "Email not authorized"} -> "email-not-authorized"
           [] r.error = "Password required" -> "password-required"
           [] r.error \in {"Incorrect password", "Invalid password"} -> "incorrect-password"
           [] OTHER -> "other"

\* The last request was a validate-access of this route with an e-mail
\* address that passed the format and MX validation.
Validated(op) == resp.op = op /\ validateEmailFull(resp.req.email).valid

\* C2, as stated: for a file whose collection_id is non-null the file
\* validate-access route grants a token if and only if the policy of the root
\* collection of the file's tree admits the request; the file's own policy
\* fields decide only when collection_id is null.
C2_FileGrantFollowsRootPolicy ==
    (Validated("validateFileAccess") /\ LiveFile(files, resp.req.id))
    => ( resp.status = 200
         <=> Admits(EffectiveFilePolicy(collections, files, resp.req.id),
                    resp.req.email, resp.req.password, now) )

\* C5, as stated: for every file and every collection whose effective
\* expires_at is earlier than the current time, every validate-access request
\* is rejected with the expired reason, whatever e-mail and password it
\* carries, and no token is issued.
C5_ExpiredAlwaysRejected ==
    /\ ( /\ Validated("validateFileAccess") /\ LiveFile(files, resp.req.id)
         /\ PolicyExpired(EffectiveFilePolicy(collections, files, resp.req.id), now) )
       => (resp.status # 200 /\ ReasonGiven(resp) = "expired")
    /\ ( /\ Validated("validateCollectionAccess")
         /\ LiveCollection(collections, resp.req.id)
         /\ PolicyExpired(EffectiveCollectionPolicy(collections, resp.req.id), now) )
       => (resp.status # 200 /\ ReasonGiven(resp) = "expired")

\* C6, as stated: validate-access evaluates existence/non-deleted, expiry,
\* e-mail allow-list and password in this order on the resource's effective
\* policy and returns the reason of the first check that fails.
C6_FirstFailingCheck ==
    /\ Validated("validateFileAccess")
       => ReasonGiven(resp) =
            FirstFailure(LiveFile(files, resp.req.id),
                         IF LiveFile(files, resp.req.id)
                         THEN EffectiveFilePolicy(collections, files, resp.req.id)
                         ELSE Guarded,
                         resp.req.email, resp.req.password, now)
    /\ Validated("validateCollectionAccess")
       => ReasonGiven(resp) =
            FirstFailure(LiveCollection(collections, resp.req.id),
                         IF LiveCollection(collections, resp.req.id)
                         THEN EffectiveCollectionPolicy(collections, resp.req.id)
                         ELSE Guarded,
                         resp.req.email, resp.req.password, now)

\* db with the policy fields of collection c overwritten.
WithPolicy(db, c, pol) ==
    [db EXCEPT ![c].expires_at = pol.expires_at,
               ![c].password_hash = sha256(pol.password),
               ![c].allowed_emails = pol.allowed_emails]

\* C3: for every non-deleted sub-collection, checkCollectionAccess decides by
\* the expires_at, password_hash and allowed_emails of the root reached by
\* following parent links until parent_id is null: it allows exactly the
\* requests that root's policy admits and otherwise gives the reason of that
\* policy's first failing check; it never reads those fields of the
\* sub-collection itself (its answer is the same whatever they hold); and the
\* rootCollectionId it returns, and the route hands out with the token, is
\* that root's id.
C3_SubCollectionUsesRootPolicy ==
    /\ \A s \in DOMAIN collections :
          (LiveCollection(collections, s) /\ Truthy(collections[s].parent_id)) =>
              \A e \in Emails, p \in Passwords :
                  LET root == RootOf(collections, s)
                      got == checkCollectionAccess(collections, s, e, p, now)
                      due == FirstFailure(TRUE, collections[root], e, p, now)
                  IN /\ got.allowed <=> due = "granted"
                     /\ got.allowed => got.rootCollectionId = root
                     /\ ~got.allowed =>
                           ReasonGiven([status |-> 403, error |-> got.reason]) = due
                     /\ \A pol \in Policies :
                           checkCollectionAccess(WithPolicy(collections, s, pol),
                                                 s, e, p, now) = got
    /\ ( /\ resp.op = "validateCollectionAccess" /\ resp.status = 200
         /\ Truthy(collections[resp.req.id].parent_id) )
       => /\ resp.out.root_collection_id = RootOf(collections, resp.req.id)
          /\ resp.out.token = generateCollectionToken(RootOf(collections, resp.req.id),
                                                      resp.req.email, now)

\* Access to a sub-collection has just been granted on the password and
\* allow-list of its root, and the token names the root.
C3_Witness ==
    /\ resp.op = "validateCollectionAccess" /\ resp.status = 200
    /\ Truthy(collections[resp.req.id].parent_id)
    /\ collections[resp.req.id].password_hash = NULL
    /\ resp.out.root_collection_id # resp.req.id
    /\ collections[resp.out.root_collection_id].password_hash = sha256(resp.req.password)
    /\ Len(collections[resp.out.root_collection_id].allowed_emails) > 0

(***************************************************************************)
(* Browsing and downloading with a collection token: several trees, a      *)
(* file, and requests that present the token validate-access issues at     *)
(* this moment to EmailA for root r.                                       *)
(***************************************************************************)
BrowseSize ==
    /\ Cardinality(DOMAIN collections) <= MaxCollections
    /\ idCount <= AccessFiles
    /\ Len(collection_access_logs) <= MaxAccessLog

IssuedNow(r) == generateCollectionToken(r, EmailA, now)

BrowseNext ==
    \/ CreateCollection("u1", Title, NoExpiry, NULL, << >>) /\ BrowseSize'
    \/ \E c \in CollectionIds : CreateSubCollection("u1", c, Title) /\ BrowseSize'
    \/ \E c \in CollectionIds : DeleteCollection("u1", c)
    \/ \E c \in CollectionIds : AddFileUnauth(c, GoodFile, "stored") /\ BrowseSize'
    \/ \E c \in CollectionIds, r \in CollectionIds :
           GetCollectionContents(c, IssuedNow(r), NumToStr(now), EmailA, r)
    \/ \E c \in CollectionIds, f \in FileIds, r \in CollectionIds :
           /\ DownloadCollectionFile(c, f, IssuedNow(r), NumToStr(now), EmailA, r)
           /\ BrowseSize'

BrowseSpec == Init /\ [][BrowseNext]_vars

\* c and the collections above it, as far as non-deleted parent links lead.
RECURSIVE LiveChain(_, _)
LiveChain(db, c) ==
    IF c \notin DOMAIN db \/ db[c].is_deleted THEN {}
    ELSE {c} \cup LiveChain(db, db[c].parent_id)

\* The target c is a non-deleted collection of a tree that r is not part of.
InAnotherTree(db, c, r) == LiveCollection(db, c) /\ r \notin ParentChain(db, c)

C9_Decisions ==
    \A c \in CollectionIds, r \in CollectionIds :
        LET browse == ContentsDecision(collections, c, IssuedNow(r), NumToStr(now),
                                       EmailA, r, now)
        IN /\ browse.status = 200 => r \in LiveChain(collections, c)
           /\ InAnotherTree(collections, c, r) =>
                 (browse.status = 403 /\ browse.error = "Access denied to this collection")
           /\ \A f \in FileIds :
                 LET download == CollectionDownloadDecision(collections, files, bucket,
                                     c, f, IssuedNow(r), NumToStr(now), EmailA, r, now)
                 IN /\ download.status = 200 =>
                          /\ r \in LiveChain(collections, c)
                          /\ LiveFile(files, f) /\ files[f].collection_id = c
                    /\ ( /\ InAnotherTree(collections, c, r)
                         /\ LiveFile(files, f) /\ files[f].collection_id = c )
                       => (download.status = 403 /\ download.error = "Access denied")

C9_Responses ==
    (resp.op \in {"getCollectionContents", "downloadCollectionFile"}) =>
        /\ resp.status = 200 => resp.req.root \in LiveChain(collections, resp.req.id)
        /\ (resp.op = "downloadCollectionFile" /\ resp.status = 200) =>
              files[resp.req.fileId].collection_id = resp.req.id
        /\ InAnotherTree(collections, resp.req.id, resp.req.root) =>
              (resp.status \in {403, 404} /\ resp.out = [none |-> TRUE])

\* C9: a browse or collection file-download request carrying a time-valid
\* token for root id R succeeds only if the target collection is R or a
\* descendant of R through non-deleted parent links (and, for a download, the
\* file's collection_id is the target collection); a request whose target
\* lies in a different tree is rejected with access denied, streams no bytes
\* and lists no children.
C9_TokenBoundToSubtree == C9_Decisions /\ C9_Responses

\* A download was just refused with access denied: the file is in the target
\* collection, the token is the one issued for the root of another tree.
C9_Witness ==
    /\ resp.op = "downloadCollectionFile" /\ resp.status = 403
    /\ LiveFile(files, resp.req.fileId)
    /\ files[resp.req.fileId].collection_id = resp.req.id
    /\ Truthy(collections[resp.req.id].parent_id)
    /\ LiveCollection(collections, resp.req.root)
    /\ ~Truthy(collections[resp.req.root].parent_id)
    /\ resp.req.token = generateCollectionToken(resp.req.root, resp.req.email, now)
    /\ file_audit_log = <<AuditEntry(resp.req.fileId, "upload", resp.req.fileId, "success", "")>>
    /\ collection_access_logs = << >>

(***************************************************************************)
(* Tokens over time: a collection with a file, the two validate-access     *)
(* routes issuing tokens, the clock moving through the instants around     *)
(* the two validity windows, and the token-bearing routes being sent the   *)
(* tuple issued at StartTime, as issued or with one parameter edited.      *)
(***************************************************************************)
\* Milliseconds after StartTime at which requests are made.
Clock == <<0, 299000, 300000, 301000, 1799000, 1800000, 1801000>>

Instants == {StartTime + Clock[i] : i \in 1..Len(Clock)}

TokenCollectionIds == {CollectionId(n) : n \in 1..TokenCollections}
TokenFileIds == {FileId(n) : n \in 1..AccessFiles}

TokenSize ==
    /\ Cardinality(DOMAIN collections) <= TokenCollections
    /\ idCount <= AccessFiles
    /\ Len(access_logs) <= MaxAccessLog
    /\ Len(collection_access_logs) <= MaxAccessLog

\* The tokens validate-access issues to EmailA at instant t.
FileTokenAt(f, t) == sha256(TokenData(f, EmailA, NumToStr(t)))
CollectionTokenAt(r, t) == generateCollectionToken(r, EmailA, t)

\* The parameters (id, email, t) a holder of the tuple issued at StartTime
\* presents: the tuple itself, or one with a character appended to t, a
\* character of the e-mail replaced, or a character of the id replaced.
Presented(id) ==
    { [id |-> id, email |-> EmailA, t |-> NumToStr(StartTime)],
      [id |-> id, email |-> EmailA, t |-> NumToStr(StartTime) \o <<"x">>],
      [id |-> id, email |-> EmailB, t |-> NumToStr(StartTime)],
      [id |-> [id EXCEPT ![Len(id)] = "9"], email |-> EmailA, t |-> NumToStr(StartTime)] }

TokenNext ==
    \/ CreateCollection("u1", Title, NoExpiry, NULL, << >>) /\ TokenSize'
    \/ \E c \in TokenCollectionIds : AddFile("u1", c, GoodFile, "stored") /\ TokenSize'
    \/ \E f \in TokenFileIds : ValidateFileAccess(f, EmailA, NULL) /\ TokenSize'
    \/ \E c \in TokenCollectionIds : ValidateCollectionAccess(c, EmailA, NULL) /\ TokenSize'
    \/ \E i \in 1..(Len(Clock) - 1) :
           now = StartTime + Clock[i] /\ Tick(Clock[i + 1] - Clock[i])
    \/ \E f \in TokenFileIds : \E p \in Presented(f) :
           DownloadFile(p.id, FileTokenAt(f, StartTime), p.t, p.email)
    \/ \E c \in TokenCollectionIds : \E p \in Presented(c) :
           GetCollectionContents(c, CollectionTokenAt(c, StartTime), p.t, p.email, p.id)
    \/ \E c \in TokenCollectionIds, f \in TokenFileIds : \E p \in Presented(c) :
           /\ DownloadCollectionFile(c, f, CollectionTokenAt(c, StartTime),
                                     p.t, p.email, p.id)
           /\ TokenSize'

TokenSpec == Init /\ [][TokenNext]_vars


(***************************************************************************)
(* Properties of tokens                                                    *)
(***************************************************************************)
FiveMinutes == 5 * 60 * 1000
ThirtyMinutes == 30 * 60 * 1000

\* The instants up to now at which a token may have been issued.
IssueInstants == {i \in Instants : i <= now}

\* For a tuple (id, EmailA, i, token) as issued at instant i and presented
\* now: what the three token-bearing routes answer.
C7_Decisions ==
    \A i \in IssueInstants :
        /\ \A f \in TokenFileIds :
             LET d == FileDownloadDecision(files, bucket, f, FileTokenAt(f, i),
                                           NumToStr(i), EmailA, now)
             IN /\ now - i <= FiveMinutes =>
                      /\ d.status \in {200, 404}
                      /\ (LiveFile(files, f) /\ files[f].r2_key \in DOMAIN bucket)
                             => d.status = 200
                /\ now - i > FiveMinutes => d.status = 410
        /\ \A c \in TokenCollectionIds :
             LET d == ContentsDecision(collections, c, CollectionTokenAt(c, i),
                                       NumToStr(i), EmailA, c, now)
             IN /\ now - i <= ThirtyMinutes =>
                      /\ d.status \in {200, 404}
                      /\ LiveCollection(collections, c) => d.status = 200
                /\ now - i > ThirtyMinutes => d.status = 401
        /\ \A c \in TokenCollectionIds, f \in TokenFileIds :
             LET d == CollectionDownloadDecision(collections, files, bucket, c, f,
                          CollectionTokenAt(c, i), NumToStr(i), EmailA, c, now)
             IN /\ now - i <= ThirtyMinutes =>
                      /\ d.status \in {200, 404}
                      /\ (/\ LiveFile(files, f) /\ files[f].collection_id = c
                          /\ files[f].r2_key \in DOMAIN bucket) => d.status = 200
                /\ now - i > ThirtyMinutes => d.status = 401

\* Every request carrying the tuple as issued is answered by the age of the
\* tuple alone: the expiry answer exactly when the age exceeds the window.
C7_Request ==
    resp' # resp =>
        /\ (/\ resp'.op = "downloadFile"
            /\ resp'.req.token = FileTokenAt(resp'.req.id, StartTime)
            /\ resp'.req.email = EmailA
            /\ resp'.req.t = NumToStr(StartTime)) =>
               /\ resp'.status = 410 <=> now - StartTime > FiveMinutes
               /\ now - StartTime <= FiveMinutes => resp'.status \in {200, 404}
        /\ (/\ resp'.op \in {"getCollectionContents", "downloadCollectionFile"}
            /\ resp'.req.email = EmailA
            /\ resp'.req.token = CollectionTokenAt(resp'.req.root, StartTime)
            /\ resp'.req.t = NumToStr(StartTime)) =>
               /\ resp'.status = 401 <=> now - StartTime > ThirtyMinutes
               /\ now - StartTime <= ThirtyMinutes => resp'.status \in {200, 404}

\* C7: a token tuple (id, email, timestamp, token) presented at time t
\* validates while t - timestamp is at most the window (5 minutes for a file
\* token, 30 minutes for a collection token), however often it is presented
\* and at every later time within the window, and fails at every time after
\* it: a file token is accepted 299 s after issuance and rejected 301 s
\* after it.
C7_TokenWindow == []C7_Decisions /\ [][C7_Request]_vars

\* A file token issued by validate-access is turned down as expired when
\* presented 301 s after StartTime, and a download of the same tuple would
\* have succeeded up to 1 s earlier.
C7_Witness ==
    /\ now = StartTime + 301000
    /\ Len(access_logs) = 1 /\ access_logs[1].success
    /\ resp.op = "downloadFile"
    /\ resp.status = 410
    /\ resp.req.t = NumToStr(StartTime)
    /\ resp.req.email = EmailA
    /\ resp.req.token = FileTokenAt(resp.req.id, StartTime)
    /\ LiveFile(files, resp.req.id)
    /\ FileDownloadDecision(files, bucket, resp.req.id, resp.req.token, resp.req.t,
                            EmailA, StartTime + 300000).status = 200


\* The characters an edit puts in.
EditChars == {"0", "9", "x", " "}

\* The texts one character away from s: one substituted, inserted or removed.
Substitutions(s) == {[s EXCEPT ![i] = ch] : i \in 1..Len(s), ch \in EditChars} \ {s}

Insertions(s) ==
    {SubSeq(s, 1, i) \o <<ch>> \o SubSeq(s, i + 1, Len(s)) : i \in 0..Len(s), ch \in EditChars}

Removals(s) == {SubSeq(s, 1, i - 1) \o SubSeq(s, i + 1, Len(s)) : i \in 1..Len(s)}

SingleEdits(s) == Substitutions(s) \cup Insertions(s) \cup Removals(s)

\* The parameter triples with exactly one of id, email, timestamp edited.
EditedTuples(id, email, timestamp) ==
    {<<i, email, timestamp>> : i \in SingleEdits(id)}
        \cup {<<id, e, timestamp>> : e \in SingleEdits(email)}
        \cup {<<id, email, t>> : t \in SingleEdits(timestamp)}

Granted(op) == resp.op = op /\ resp.status = 200

\* The token of a grant is the hash of the id, email and timestamp returned
\* with it.
C8_Recomputed ==
    /\ Granted("validateFileAccess") =>
           resp.out.token = sha256(TokenData(resp.req.id, resp.out.email, resp.out.t))
    /\ Granted("validateCollectionAccess") =>
           resp.out.token =
               sha256(TokenData(resp.out.root_collection_id, resp.out.email, resp.out.t))

\* A file token with one parameter edited is turned down by the download route.
C8_FileEdits ==
    Granted("validateFileAccess") =>
        \A e \in EditedTuples(resp.req.id, resp.out.email, resp.out.t) :
            FileDownloadDecision(files, bucket, e[1], resp.out.token, e[3], e[2],
                                 now).status # 200

\* A collection token with one parameter edited is turned down by the browse
\* route and by the collection download route.
C8_CollectionEdits ==
    Granted("validateCollectionAccess") =>
        \A e \in EditedTuples(resp.out.root_collection_id, resp.out.email, resp.out.t) :
            /\ \A c \in DOMAIN collections :
                   ContentsDecision(collections, c, resp.out.token, e[3], e[2], e[1],
                                    now).status # 200
            /\ \A f \in DOMAIN files :
                   CollectionDownloadDecision(collections, files, bucket,
                       files[f].collection_id, f, resp.out.token, e[3], e[2], e[1],
                       now).status # 200

\* C8, as stated: every token returned by a successful validate-access equals
\* the hash recomputed from the (id, email, timestamp) returned with it, and
\* presenting that token with the id, email or timestamp parameter changed in
\* a single character (substituted, inserted or removed) is rejected by the
\* download and browse handlers, for file tokens and for collection tokens.
C8_TokenBindsParameters == C8_Recomputed /\ C8_FileEdits /\ C8_CollectionEdits


(***************************************************************************)
(* Uploads against a bucket that may lose or truncate the object: a root   *)
(* collection of "u1", the standalone upload and both add-file routes with *)
(* every outcome of put, and delete-file.                                  *)
(***************************************************************************)
UploadCollectionIds == {CollectionId(n) : n \in 1..UploadCollections}

UploadSize == Cardinality(DOMAIN collections) <= UploadCollections /\ idCount <= UploadFiles

UploadNext ==
    \/ CreateCollection("u1", Title, NoExpiry, NULL, << >>) /\ UploadSize'
    \/ \E f \in FileInputs, r \in R2Outcomes :
           UploadFile("u1", f, NoExpiry, NULL, << >>, r) /\ UploadSize'
    \/ \E u \in Callers, c \in UploadCollectionIds, r \in R2Outcomes :
           AddFile(u, c, GoodFile, r) /\ UploadSize'
    \/ \E c \in UploadCollectionIds, r \in R2Outcomes :
           AddFileUnauth(c, GoodFile, r) /\ UploadSize'
    \/ \E f \in FileIds, x \in BOOLEAN : DeleteFile(f, x)

UploadSpec == Init /\ [][UploadNext]_vars

\* An upload request that got as far as put and head, with bucket outcome r:
\* any of the three routes, any caller, any collection.
UploadWith(r) ==
    /\ idCount' = idCount + 1
    /\ \/ UploadFile("u1", GoodFile, NoExpiry, NULL, << >>, r)
       \/ \E u \in Callers, c \in UploadCollectionIds : AddFile(u, c, GoodFile, r)
       \/ \E c \in UploadCollectionIds : AddFileUnauth(c, GoodFile, r)

\* What a request whose verification failed leaves behind: the tables files
\* and collections as they were (so no row with the generated id and every
\* item_count unchanged), one more audit entry, of status failed, for the
\* generated id, and an error answer.
VerificationFailed ==
    /\ files' = files
    /\ NewFileId \notin DOMAIN files'
    /\ collections' = collections
    /\ Len(file_audit_log') = Len(file_audit_log) + 1
    /\ SubSeq(file_audit_log', 1, Len(file_audit_log)) = file_audit_log
    /\ LET e == file_audit_log'[Len(file_audit_log')]
       IN e.file_id = NewFileId /\ e.operation = "upload" /\ e.status = "failed"
    /\ resp'.status >= 400

C11_Request ==
    UploadWith("truncated") =>
        /\ VerificationFailed
        /\ NewFileId \notin DOMAIN bucket'
        /\ file_audit_log'[Len(file_audit_log')].error_message = "Size mismatch"

C12_Request ==
    UploadWith("missing") =>
        /\ VerificationFailed
        /\ bucket' = bucket
        /\ file_audit_log'[Len(file_audit_log')].error_message = "not found after upload"

\* C12: in an upload (standalone or add-file-to-collection), if the head call
\* after the put reports the object absent, the request appends a
\* storage-audit entry with status failed, returns an error, creates no File
\* row and changes no collection's item_count.
C12_MissingObjectRejected == [][C12_Request]_vars

\* A standalone upload has just been turned down because the object was not
\* there after the put, while a collection holds a file.
C12_Witness ==
    /\ resp.op = "upload"
    /\ resp.error = "Upload verification failed"
    /\ \E c \in DOMAIN collections : collections[c].item_count = 1
    /\ file_audit_log[Len(file_audit_log)].error_message = "not found after upload"
    /\ file_audit_log[Len(file_audit_log)].file_id \notin DOMAIN files


(***************************************************************************)
(* Requests run statement by statement.  Each await of a route is one      *)
(* step of process p; between two steps any other request may run.  The    *)
(* locals of the request are kept in running[p].                           *)
(***************************************************************************)
Run(p, locals) == running' = [running EXCEPT ![p] = locals]

Finish(p) == running' = [running EXCEPT ![p] = Idle]

At(p, op, pc) == running[p].pc = pc /\ running[p].op = op

\* --- DELETE /api/share/files/[id] ---------------------------------------
\* SELECT r2_key, collection_id, file_size FROM files WHERE id = ? AND is_deleted = 0
DeleteFileSelect(p, id) ==
    /\ running[p] = Idle
    /\ UNCHANGED <<store, now>>
    /\ IF ~LiveFile(files, id)
       THEN /\ resp' = Reject("deleteFile", [id |-> id], 404, "File not found")
            /\ UNCHANGED running
       ELSE /\ Run(p, [pc |-> "bucket.delete", op |-> "deleteFile", id |-> id,
                       r2_key |-> files[id].r2_key,
                       collection_id |-> files[id].collection_id])
            /\ UNCHANGED resp

\* await FILE_SHARE_BUCKET.delete(file.r2_key)
DeleteFileBlob(p, r2DeleteThrows) ==
    /\ At(p, "deleteFile", "bucket.delete")
    /\ UNCHANGED <<collections, files, file_audit_log, access_logs,
                   collection_access_logs, idCount, now>>
    /\ IF r2DeleteThrows
       THEN /\ resp' = Reject("deleteFile", [id |-> running[p].id], 500,
                              "Failed to delete file")
            /\ Finish(p)
            /\ UNCHANGED bucket
       ELSE /\ bucket' = DeleteObject(bucket, running[p].r2_key)
            /\ Run(p, [running[p] EXCEPT !.pc = "audit"])
            /\ UNCHANGED resp

\* INSERT INTO file_audit_log (... 'delete' ... 'success' ...)
DeleteFileAudit(p) ==
    /\ At(p, "deleteFile", "audit")
    /\ file_audit_log' = Append(file_audit_log,
           AuditEntry(running[p].id, "delete", running[p].r2_key, "success", ""))
    /\ Run(p, [running[p] EXCEPT !.pc = "mark"])
    /\ UNCHANGED <<collections, files, bucket, access_logs, collection_access_logs,
                   idCount, now, resp>>

\* UPDATE files SET is_deleted = 1 WHERE id = ?
DeleteFileMark(p) ==
    /\ At(p, "deleteFile", "mark")
    /\ files' = [files EXCEPT ![running[p].id].is_deleted = TRUE]
    /\ UNCHANGED <<collections, bucket, file_audit_log, access_logs,
                   collection_access_logs, idCount, now>>
    /\ IF Truthy(running[p].collection_id)
       THEN /\ Run(p, [running[p] EXCEPT !.pc = "count"])
            /\ UNCHANGED resp
       ELSE /\ resp' = Reply("deleteFile", [id |-> running[p].id], 200, "",
                             [success |-> TRUE])
            /\ Finish(p)

\* UPDATE collections SET item_count = item_count - 1 WHERE id = file.collection_id
DeleteFileCount(p) ==
    /\ At(p, "deleteFile", "count")
    /\ collections' = AdjustItemCount(collections, running[p].collection_id, -1)
    /\ resp' = Reply("deleteFile", [id |-> running[p].id], 200, "", [success |-> TRUE])
    /\ Finish(p)
    /\ UNCHANGED <<files, bucket, file_audit_log, access_logs, collection_access_logs,
                   idCount, now>>


\* --- POST /api/share/upload and POST .../add-file -----------------------
\* Everything up to generateFileId: the checks read the request, and for
\* add-file one row of collections.
UploadLocals(op, req, file, row, counted) ==
    [pc |-> "bucket.put", op |-> op, req |-> req, fileId |-> NewFileId,
     r2_key |-> NewFileId, size |-> file.size, row |-> [row EXCEPT !.r2_key = NewFileId],
     counted |-> counted]

UploadBegin(p, userId, file) ==
    LET req == [user |-> userId]
    IN
    /\ running[p] = Idle
    /\ UNCHANGED <<collections, files, bucket, file_audit_log, access_logs,
                   collection_access_logs, now>>
    /\ IF FileFormError(file) # ""
       THEN /\ resp' = Reject("upload", req, 400, FileFormError(file))
            /\ UNCHANGED <<running, idCount>>
       ELSE /\ idCount' = idCount + 1
            /\ Run(p, UploadLocals("upload", req, file,
                       FileRow(NULL, file.size, NULL, userId, NoExpiry, NULL, << >>), NULL))
            /\ UNCHANGED resp

AddFileBegin(p, user, collectionId, file) ==
    LET req == [user |-> user, collectionId |-> collectionId]
        Refuse(status, error) ==
            /\ resp' = Reject("addFile", req, status, error)
            /\ UNCHANGED <<running, idCount>>
    IN
    /\ running[p] = Idle
    /\ UNCHANGED <<collections, files, bucket, file_audit_log, access_logs,
                   collection_access_logs, now>>
    /\ IF user = NoUser THEN Refuse(401, "Authentication required")
       ELSE IF ~LiveCollection(collections, collectionId)
       THEN Refuse(404, "Collection not found")
       ELSE IF collections[collectionId].user_id # user THEN Refuse(403, "Access denied")
       ELSE IF FileFormError(file) # "" THEN Refuse(400, FileFormError(file))
       ELSE /\ idCount' = idCount + 1
            /\ Run(p, UploadLocals("addFile", req, file,
                       FileRow(NULL, file.size, collectionId, NoUser, NoExpiry, NULL, << >>),
                       collectionId))
            /\ UNCHANGED resp

Uploading(p, pc) == running[p].pc = pc /\ running[p].op \in {"upload", "addFile"}

\* await FILE_SHARE_BUCKET.put(r2Key, arrayBuffer, ...)
UploadPut(p, r2) ==
    /\ Uploading(p, "bucket.put")
    /\ bucket' = PutObject(bucket, running[p].r2_key, running[p].size, r2)
    /\ Run(p, [running[p] EXCEPT !.pc = "bucket.head"])
    /\ UNCHANGED <<collections, files, file_audit_log, access_logs,
                   collection_access_logs, idCount, now, resp>>

\* const verification = await FILE_SHARE_BUCKET.head(r2Key)
UploadHead(p) ==
    LET verification == HeadObject(bucket, running[p].r2_key)
    IN
    /\ Uploading(p, "bucket.head")
    /\ Run(p, [pc |-> "audit", op |-> running[p].op, req |-> running[p].req,
               fileId |-> running[p].fileId, r2_key |-> running[p].r2_key,
               size |-> running[p].size, row |-> running[p].row,
               counted |-> running[p].counted, verification |-> verification])
    /\ UNCHANGED <<store, now, resp>>

\* INSERT INTO file_audit_log: the failure found, or the success
UploadAudit(p) ==
    LET r == running[p]
        Log(status, message) ==
            file_audit_log' = Append(file_audit_log,
                AuditEntry(r.fileId, "upload", r.r2_key, status, message))
    IN
    /\ Uploading(p, "audit")
    /\ UNCHANGED <<collections, files, bucket, access_logs, collection_access_logs,
                   idCount, now>>
    /\ IF r.verification = -1
       THEN /\ Log("failed", "not found after upload")
            /\ resp' = Reject(r.op, r.req, 500, "Upload verification failed")
            /\ Finish(p)
       ELSE IF r.verification # r.size
       THEN /\ Log("failed", "Size mismatch")
            /\ Run(p, [r EXCEPT !.pc = "bucket.delete"])
            /\ UNCHANGED resp
       ELSE /\ Log("success", "")
            /\ Run(p, [r EXCEPT !.pc = "insert"])
            /\ UNCHANGED resp

\* await FILE_SHARE_BUCKET.delete(r2Key) : the corrupted object
UploadCleanup(p) ==
    /\ Uploading(p, "bucket.delete")
    /\ bucket' = DeleteObject(bucket, running[p].r2_key)
    /\ resp' = Reject(running[p].op, running[p].req, 500,
                      "Upload verification failed - size mismatch")
    /\ Finish(p)
    /\ UNCHANGED <<collections, files, file_audit_log, access_logs,
                   collection_access_logs, idCount, now>>

\* INSERT INTO files (...)
UploadInsert(p) ==
    /\ Uploading(p, "insert")
    /\ files' = Insert(files, running[p].fileId, running[p].row)
    /\ UNCHANGED <<collections, bucket, file_audit_log, access_logs,
                   collection_access_logs, idCount, now>>
    /\ IF Truthy(running[p].counted)
       THEN /\ Run(p, [running[p] EXCEPT !.pc = "count"])
            /\ UNCHANGED resp
       ELSE /\ resp' = Reply(running[p].op, running[p].req, 201, "",
                             [id |-> running[p].fileId])
            /\ Finish(p)

\* UPDATE collections SET item_count = item_count + 1 WHERE id = collectionId
UploadCount(p) ==
    /\ Uploading(p, "count")
    /\ collections' = AdjustItemCount(collections, running[p].counted, 1)
    /\ resp' = Reply(running[p].op, running[p].req, 201, "", [id |-> running[p].fileId])
    /\ Finish(p)
    /\ UNCHANGED <<files, bucket, file_audit_log, access_logs, collection_access_logs,
                   idCount, now>>


\* --- DELETE /api/share/collections/[id] ---------------------------------
\* UPDATE collections SET is_deleted = 1 WHERE id IN (SELECT id FROM descendants)
MarkDescendants(db, id) ==
    [c \in DOMAIN db |->
       IF c \in Descendants(db, id) THEN [db[c] EXCEPT !.is_deleted = TRUE] ELSE db[c]]

\* validateToken, then SELECT id, user_id FROM collections WHERE id = ? AND is_deleted = 0
DeleteCollectionSelect(p, user, id) ==
    LET req == [user |-> user, id |-> id]
        Refuse(status, error) ==
            /\ resp' = Reject("deleteCollection", req, status, error)
            /\ UNCHANGED running
    IN
    /\ running[p] = Idle
    /\ UNCHANGED <<store, now>>
    /\ IF user = NoUser THEN Refuse(401, "Authentication required")
       ELSE IF ~LiveCollection(collections, id) THEN Refuse(404, "Collection not found")
       ELSE IF collections[id].user_id # user THEN Refuse(403, "Access denied")
       ELSE /\ Run(p, [pc |-> "collections", op |-> "deleteCollection", req |-> req,
                       id |-> id])
            /\ UNCHANGED resp

DeleteCollectionCascade(p) ==
    /\ At(p, "deleteCollection", "collections")
    /\ collections' = MarkDescendants(collections, running[p].id)
    /\ Run(p, [running[p] EXCEPT !.pc = "files"])
    /\ UNCHANGED <<files, bucket, file_audit_log, access_logs, collection_access_logs,
                   idCount, now, resp>>

\* UPDATE files SET is_deleted = 1 WHERE collection_id IN (SELECT id FROM descendants)
DeleteCollectionFiles(p) ==
    /\ At(p, "deleteCollection", "files")
    /\ files' = CascadeFiles(collections, files, running[p].id)
    /\ Run(p, [running[p] EXCEPT !.pc = "parent"])
    /\ UNCHANGED <<collections, bucket, file_audit_log, access_logs,
                   collection_access_logs, idCount, now, resp>>

\* SELECT parent_id FROM collections WHERE id = ?
DeleteCollectionParent(p) ==
    LET parent_id == collections[running[p].id].parent_id
    IN
    /\ At(p, "deleteCollection", "parent")
    /\ UNCHANGED <<store, now>>
    /\ IF Truthy(parent_id)
       THEN /\ Run(p, [pc |-> "count", op |-> "deleteCollection", req |-> running[p].req,
                       id |-> running[p].id, parent_id |-> parent_id])
            /\ UNCHANGED resp
       ELSE /\ resp' = Reply("deleteCollection", running[p].req, 200, "",
                             [success |-> TRUE])
            /\ Finish(p)

\* UPDATE collections SET item_count = item_count - 1 WHERE id = parent_id
\* (No request gets here: a collection with a parent has no user_id, so the
\* owner check of the first step turns every caller away.)
DeleteCollectionCount(p) ==
    /\ At(p, "deleteCollection", "count")
    /\ collections' = AdjustItemCount(collections, running[p].parent_id, -1)
    /\ resp' = Reply("deleteCollection", running[p].req, 200, "", [success |-> TRUE])
    /\ Finish(p)
    /\ UNCHANGED <<files, bucket, file_audit_log, access_logs, collection_access_logs,
                   idCount, now>>

(***************************************************************************)
(* Concurrent requests: a signed-in owner's collections, and up to         *)
(* MaxRunning uploads, add-files, delete-files and delete-collections      *)
(* under way at once.  Sub-collections come from the route that asks for   *)
(* no session and stay without an owner.                                   *)
(***************************************************************************)
StepCollectionIds == {CollectionId(n) : n \in 1..StepCollections}
StepFileIds == {FileId(n) : n \in 1..StepFiles}

StepSize == Cardinality(DOMAIN collections) <= StepCollections /\ idCount <= StepFiles

StepNext ==
    \/ CreateCollection("u1", Title, NoExpiry, NULL, << >>) /\ StepSize'
    \/ \E c \in StepCollectionIds : CreateSubCollectionUnauth(c, Title) /\ StepSize'
    \/ \E p \in Procs : UploadBegin(p, "u1", GoodFile) /\ StepSize'
    \/ \E p \in Procs, c \in StepCollectionIds : AddFileBegin(p, "u1", c, GoodFile) /\ StepSize'
    \/ \E p \in Procs, r \in R2Outcomes : UploadPut(p, r)
    \/ \E p \in Procs : UploadHead(p)
    \/ \E p \in Procs : UploadAudit(p)
    \/ \E p \in Procs : UploadCleanup(p)
    \/ \E p \in Procs : UploadInsert(p)
    \/ \E p \in Procs : UploadCount(p)
    \/ \E p \in Procs, f \in StepFileIds : DeleteFileSelect(p, f)
    \/ \E p \in Procs, x \in BOOLEAN : DeleteFileBlob(p, x)
    \/ \E p \in Procs : DeleteFileAudit(p)
    \/ \E p \in Procs : DeleteFileMark(p)
    \/ \E p \in Procs : DeleteFileCount(p)
    \/ \E p \in Procs, c \in StepCollectionIds : DeleteCollectionSelect(p, "u1", c)
    \/ \E p \in Procs : DeleteCollectionCascade(p)
    \/ \E p \in Procs : DeleteCollectionFiles(p)
    \/ \E p \in Procs : DeleteCollectionParent(p)

StepSpec == Init /\ [][StepNext]_vars


(***************************************************************************)
(* Properties of rows and blobs                                            *)
(***************************************************************************)
BlobBacked(f) ==
    /\ files[f].r2_key \in DOMAIN bucket
    /\ bucket[files[f].r2_key] = files[f].file_size

Quiet == \A p \in Procs : running[p] = Idle

\* C13, as stated: in every reachable state, the states between the
\* statements of an upload or a delete-file request included, every
\* non-deleted File row's blob key is present in the blob store with a size
\* equal to the row's file_size.
C13_LiveRowsHaveBlobs == \A f \in DOMAIN files : ~files[f].is_deleted => BlobBacked(f)

\* The same between requests only: while no request is under way.
C13_BetweenRequests == Quiet => C13_LiveRowsHaveBlobs


C14_Request ==
    \A f \in FileIds, x \in BOOLEAN :
        (LiveFile(files, f) /\ DeleteFile(f, x)) =>
            /\ files'[f].is_deleted
            /\ Truthy(files[f].collection_id) =>
                   collections'[files[f].collection_id].item_count
                       = collections[files[f].collection_id].item_count - 1
            /\ Len(file_audit_log') = Len(file_audit_log) + 1
            /\ LET e == file_audit_log'[Len(file_audit_log')]
               IN /\ e.file_id = f
                  /\ e.operation = "delete"
                  /\ e.status = IF x THEN "failed" ELSE "success"

\* C14, as stated: a delete-file request on a non-deleted file marks the File
\* row deleted (and decrements its collection's item_count when
\* collection_id is non-null) whether the blob-store delete succeeds or
\* fails, and in both cases appends a storage-audit 'delete' entry whose
\* status reflects the blob-delete outcome.
C14_DeletedWhateverTheBucketDoes == [][C14_Request]_vars

\* The same for the requests whose blob-store delete succeeds.
C14_DeletedWhenTheBucketDeletes ==
    [][\A f \in FileIds :
          (LiveFile(files, f) /\ DeleteFile(f, FALSE)) =>
              /\ files'[f].is_deleted
              /\ Truthy(files[f].collection_id) =>
                     collections'[files[f].collection_id].item_count
                         = collections[files[f].collection_id].item_count - 1
              /\ file_audit_log' = Append(file_audit_log,
                     AuditEntry(f, "delete", files[f].r2_key, "success", ""))]_vars


\* C15, as stated: whenever a File row becomes soft-deleted, by a delete-file
\* request or by the cascade of a delete-collection request, its blob is
\* deleted from the blob store within the same request and a storage-audit
\* 'delete' entry is appended for it; so after any completed sequence of
\* requests no soft-deleted file's blob key is still in the blob store.
C15_DeletedFilesHaveNoBlob ==
    \A f \in DOMAIN files :
        files[f].is_deleted =>
            /\ files[f].r2_key \notin DOMAIN bucket
            /\ \E i \in 1..Len(file_audit_log) :
                  file_audit_log[i].file_id = f /\ file_audit_log[i].operation = "delete"

\* The same for the files deleted one at a time: those whose collection, if
\* they have one, is not deleted.
C15_SingleDeletesRemoveBlob ==
    \A f \in DOMAIN files :
        ( /\ files[f].is_deleted
          /\ Truthy(files[f].collection_id) => ~collections[files[f].collection_id].is_deleted )
        => /\ files[f].r2_key \notin DOMAIN bucket
           /\ \E i \in 1..Len(file_audit_log) :
                 file_audit_log[i].file_id = f /\ file_audit_log[i].operation = "delete"


\* C16, as stated: in every reachable state, the states that interleavings of
\* add-file and delete-collection pass through included, every non-deleted
\* File row with a non-null collection_id references an existing, non-deleted
\* Collection.
C16_LiveFilesInLiveCollections ==
    \A f \in DOMAIN files :
        (~files[f].is_deleted /\ Truthy(files[f].collection_id)) =>
            /\ files[f].collection_id \in DOMAIN collections
            /\ ~collections[files[f].collection_id].is_deleted


\* The same between requests only: the violation outlives the two requests.
C16_BetweenRequests == Quiet => C16_LiveFilesInLiveCollections


(***************************************************************************)
(* The routes that read a resource for its owner or update its settings    *)
(***************************************************************************)
\* GET /api/share/files/[id] : file metadata, with its access logs on demand
GetFile(id, includeLogs) ==
    LET req == [id |-> id, logs |-> includeLogs]
    IN
    /\ UNCHANGED running
    /\ UNCHANGED <<store, now>>
    /\ resp' = IF ~LiveFile(files, id)
               THEN Reject("getFile", req, 404, "File not found")
               ELSE Reply("getFile", req, 200, "",
                      [file |-> files[id],
                       access_logs |-> IF includeLogs
                                       THEN SelectSeq(access_logs, LAMBDA e : e.file_id = id)
                                       ELSE << >>])

\* GET /api/share/files : the caller's standalone files
ListFiles(user) ==
    LET req == [user |-> user]
    IN
    /\ UNCHANGED running
    /\ UNCHANGED <<store, now>>
    /\ resp' = IF user = NoUser
               THEN Reject("listFiles", req, 401, "Authentication required")
               ELSE Reply("listFiles", req, 200, "",
                      [files |-> {f \in DOMAIN files :
                                     /\ ~files[f].is_deleted
                                     /\ files[f].collection_id = NULL
                                     /\ files[f].user_id = user}])

\* GET /api/share/collections : the caller's root collections
ListCollections(user) ==
    LET req == [user |-> user]
    IN
    /\ UNCHANGED running
    /\ UNCHANGED <<store, now>>
    /\ resp' = IF user = NoUser
               THEN Reject("listCollections", req, 401, "Authentication required")
               ELSE Reply("listCollections", req, 200, "",
                      [collections |-> {c \in DOMAIN collections :
                                           /\ ~collections[c].is_deleted
                                           /\ collections[c].parent_id = NULL
                                           /\ collections[c].user_id = user}])

\* GET /api/share/collections/[id] : the collection, its children and its
\* breadcrumbs, with its access logs on demand
GetCollection(id, includeLogs) ==
    LET req == [id |-> id, logs |-> includeLogs]
    IN
    /\ UNCHANGED running
    /\ UNCHANGED <<store, now>>
    /\ resp' = IF ~LiveCollection(collections, id)
               THEN Reject("getCollection", req, 404, "Collection not found")
               ELSE Reply("getCollection", req, 200, "",
                      [collection |-> collections[id],
                       children |-> LiveChildCollections(collections, id)
                                        \cup LiveChildFiles(files, id),
                       breadcrumbs |-> getCollectionBreadcrumbs(collections, id),
                       access_logs |-> IF includeLogs
                                       THEN SelectSeq(collection_access_logs,
                                                      LAMBDA e : e.collection_id = id)
                                       ELSE << >>])

\* The body of a PUT: `fields` are the keys the JSON body has.
UpdateBody(fields, title, expiresAt, password, removePassword, allowedEmails) ==
    [fields |-> fields, title |-> title, expires_at |-> expiresAt, password |-> password,
     remove_password |-> removePassword, allowed_emails |-> allowedEmails]

\* The SET clause both PUT routes build for the policy columns.
UpdatedPolicy(row, body) ==
    [row EXCEPT
        !.expires_at = IF "expires_at" \in body.fields THEN body.expires_at ELSE @,
        !.password_hash = IF body.remove_password THEN NULL
                          ELSE IF Truthy(body.password) THEN sha256(body.password)
                          ELSE @,
        !.allowed_emails = IF "allowed_emails" \in body.fields
                           THEN body.allowed_emails ELSE @]

\* PUT /api/share/files/[id] : UPDATE files SET ... WHERE id = ? AND is_deleted = 0
UpdateFile(id, body) ==
    /\ UNCHANGED running
    /\ UNCHANGED <<collections, bucket, file_audit_log, access_logs,
                   collection_access_logs, idCount, now>>
    /\ files' = IF LiveFile(files, id)
                THEN [files EXCEPT ![id] = UpdatedPolicy(@, body)]
                ELSE files
    /\ resp' = Reply("updateFile", [id |-> id, body |-> body], 200, "", [success |-> TRUE])

\* PUT /api/share/collections/[id] (the subtitle column is not kept)
UpdateCollection(user, id, body) ==
    LET req == [user |-> user, id |-> id, body |-> body]
        op == "updateCollection"
    IN
    /\ UNCHANGED running
    /\ UNCHANGED <<files, bucket, file_audit_log, access_logs,
                   collection_access_logs, idCount, now>>
    /\ IF user = NoUser
       THEN /\ resp' = Reject(op, req, 401, "Authentication required")
            /\ UNCHANGED collections
       ELSE IF ~LiveCollection(collections, id)
       THEN /\ resp' = Reject(op, req, 404, "Collection not found")
            /\ UNCHANGED collections
       ELSE IF collections[id].user_id # user
       THEN /\ resp' = Reject(op, req, 403, "Access denied")
            /\ UNCHANGED collections
       ELSE IF "title" \in body.fields /\ ~Truthy(trim(body.title))
       THEN /\ resp' = Reject(op, req, 400, "Title cannot be empty")
            /\ UNCHANGED collections
       ELSE /\ collections' =
                  [collections EXCEPT ![id] =
                      [UpdatedPolicy(@, body) EXCEPT
                          !.title = IF "title" \in body.fields THEN trim(body.title) ELSE @]]
            /\ resp' = Reply(op, req, 200, "", [success |-> TRUE])

(***************************************************************************)
(* Deleted resources: every route that deletes, and every route that       *)
(* returns, lists, grants or serves a file or a collection                 *)
(***************************************************************************)
ReadCollections == 2
ReadFiles == 1

ReadCollectionIds == {CollectionId(n) : n \in 1..ReadCollections}
ReadFileIds == {FileId(n) : n \in 1..ReadFiles}

ReadSize ==
    /\ Cardinality(DOMAIN collections) <= ReadCollections
    /\ idCount <= ReadFiles
    /\ Len(access_logs) <= MaxAccessLog
    /\ Len(collection_access_logs) <= MaxAccessLog

UpdateBodies ==
    { UpdateBody({"expires_at"}, NULL, PastExpiry, NULL, FALSE, << >>),
      UpdateBody({"title"}, << >>, NoExpiry, NULL, FALSE, << >>) }

ReadNext ==
    \/ CreateCollection("u1", Title, NoExpiry, NULL, << >>) /\ ReadSize'
    \/ \E c \in ReadCollectionIds : CreateSubCollectionUnauth(c, Title) /\ ReadSize'
    \/ UploadFile("u1", GoodFile, NoExpiry, NULL, << >>, "stored") /\ ReadSize'
    \/ \E c \in ReadCollectionIds : AddFile("u1", c, GoodFile, "stored") /\ ReadSize'
    \/ \E c \in ReadCollectionIds : DeleteCollection("u1", c)
    \/ \E f \in ReadFileIds : DeleteFile(f, FALSE)
    \/ \E f \in ReadFileIds, b \in UpdateBodies : UpdateFile(f, b)
    \/ \E c \in ReadCollectionIds, b \in UpdateBodies : UpdateCollection("u1", c, b)
    \/ \E f \in ReadFileIds, l \in BOOLEAN : GetFile(f, l)
    \/ \E c \in ReadCollectionIds, l \in BOOLEAN : GetCollection(c, l)
    \/ \E u \in Callers : ListFiles(u)
    \/ \E u \in Callers : ListCollections(u)
    \/ \E f \in ReadFileIds : ValidateFileAccess(f, EmailA, NULL) /\ ReadSize'
    \/ \E c \in ReadCollectionIds : ValidateCollectionAccess(c, EmailA, NULL) /\ ReadSize'
    \/ \E f \in ReadFileIds : DownloadFile(f, FileTokenAt(f, now), NumToStr(now), EmailA)
    \/ \E c \in ReadCollectionIds, r \in ReadCollectionIds :
           GetCollectionContents(c, IssuedNow(r), NumToStr(now), EmailA, r)
    \/ \E c \in ReadCollectionIds, f \in ReadFileIds, r \in ReadCollectionIds :
           /\ DownloadCollectionFile(c, f, IssuedNow(r), NumToStr(now), EmailA, r)
           /\ ReadSize'

ReadSpec == Init /\ [][ReadNext]_vars


\* The resources a response returns, lists, grants or serves (by id).
CollectionsReturned(r) ==
    IF r.status # 200 THEN {}
    ELSE IF r.op = "getCollection"
    THEN {r.req.id} \cup (r.out.children \cap DOMAIN collections)
             \cup {r.out.breadcrumbs[i].id : i \in 1..Len(r.out.breadcrumbs)}
    ELSE IF r.op = "listCollections" THEN r.out.collections
    ELSE IF r.op = "validateCollectionAccess"
    THEN {r.req.id, r.out.root_collection_id}
             \cup {r.out.breadcrumbs[i].id : i \in 1..Len(r.out.breadcrumbs)}
    ELSE IF r.op = "getCollectionContents"
    THEN {r.req.id} \cup (r.out.children \cap DOMAIN collections)
    ELSE IF r.op = "downloadCollectionFile" THEN {r.req.id}
    ELSE {}

FilesReturned(r) ==
    IF r.status # 200 THEN {}
    ELSE IF r.op \in {"getFile", "validateFileAccess", "downloadFile"} THEN {r.req.id}
    ELSE IF r.op = "listFiles" THEN r.out.files
    ELSE IF r.op \in {"getCollection", "getCollectionContents"}
    THEN r.out.children \cap DOMAIN files
    ELSE IF r.op = "downloadCollectionFile" THEN {r.req.fileId}
    ELSE {}

C17_Request ==
    /\ \A c \in DOMAIN collections :
           collections[c].is_deleted => c \in DOMAIN collections' /\ collections'[c].is_deleted
    /\ \A f \in DOMAIN files :
           files[f].is_deleted => f \in DOMAIN files' /\ files'[f].is_deleted
    /\ resp' # resp =>
           /\ \A c \in CollectionsReturned(resp') :
                  c \in DOMAIN collections /\ ~collections[c].is_deleted
           /\ \A f \in FilesReturned(resp') : f \in DOMAIN files /\ ~files[f].is_deleted

\* C17: once a file or a collection is marked deleted its row stays, marked
\* deleted, and no later get-resource, owner listing, child listing,
\* breadcrumb trail, validate-access, browse-by-token or download-by-token
\* request returns, lists, grants or serves it.
C17_DeletedStaysHidden == [][C17_Request]_vars

\* A request for a deleted file, and one for a deleted collection that still
\* has a deleted file, have been answered.
C17_Witness ==
    /\ \E f \in DOMAIN files : files[f].is_deleted /\ Truthy(files[f].collection_id)
    /\ resp.op \in {"getCollection", "getCollectionContents", "validateCollectionAccess",
                    "downloadCollectionFile"}
    /\ resp.req.id \in DOMAIN collections
    /\ collections[resp.req.id].is_deleted
    /\ resp.status \in {403, 404}


(***************************************************************************)
(* Access logging                                                           *)
(***************************************************************************)
\* The failure reason that matches the error text of a rejection by an
\* evaluation check ("-": the rejection is none of them).
FileFailureReason(error) ==
    IF error = "File not found" THEN "File not found"
    ELSE IF error = "This file has expired" THEN "File expired"
    ELSE IF error = "Your email is not authorized to access this file"
    THEN "Email not authorized"
    ELSE IF error = "Password required" THEN "Password required"
    ELSE IF error = "Incorrect password" THEN "Invalid password"
    ELSE "-"

CollectionFailureReasons ==
    {"Collection not found", "Collection has expired", "Email not authorized",
     "Password required", "Invalid password"}

C18_FileRequest ==
    \A f \in FileIds, cr \in Credentials :
        ( /\ ValidateFileAccess(f, cr[1], cr[2])
          /\ resp'.status = 200 \/ FileFailureReason(resp'.error) # "-" )
        => access_logs' = Append(access_logs,
               AccessLogEntry(f, cr[1], resp'.status = 200,
                              IF resp'.status = 200 THEN ""
                              ELSE FileFailureReason(resp'.error)))

C18_CollectionRequest ==
    \A c \in CollectionIds, cr \in Credentials :
        ( /\ ValidateCollectionAccess(c, cr[1], cr[2])
          /\ resp'.status = 200 \/ resp'.error \in CollectionFailureReasons )
        => collection_access_logs' = Append(collection_access_logs,
               CollectionLogEntry(c, cr[1], "view", resp'.status = 200, resp'.error))

\* C18, as stated: every validate-access request, for a file or for a
\* collection, that an evaluation check rejects (not found, expired, e-mail
\* not authorized, password required, incorrect password) appends one
\* access-log entry for that resource and e-mail with success = 0 and the
\* matching reason, and every granted request appends one with success = 1.
C18_EveryOutcomeLogged == [][C18_FileRequest /\ C18_CollectionRequest]_vars

\* The collection route alone.
C18_CollectionOutcomesLogged == [][C18_CollectionRequest]_vars

\* The file route, for the rejections other than `not found` and `password
\* required`, and for the grants.
C18_FileOutcomesLoggedButTwo ==
    [][\A f \in FileIds, cr \in Credentials :
          ( /\ ValidateFileAccess(f, cr[1], cr[2])
            /\ \/ resp'.status = 200
               \/ resp'.error \in {"This file has expired", "Incorrect password",
                                   "Your email is not authorized to access this file"} )
          => access_logs' = Append(access_logs,
                 AccessLogEntry(f, cr[1], resp'.status = 200,
                                IF resp'.status = 200 THEN ""
                                ELSE FileFailureReason(resp'.error)))]_vars


(***************************************************************************)
(* Download auditing                                                        *)
(***************************************************************************)
\* The entries a request appended to a log.
Appended(before, after) == {after[i] : i \in (Len(before) + 1)..Len(after)}

\* The request left a record of a download of this file by this requester:
\* an appended entry names the file, and an appended entry names the e-mail.
DownloadRecorded(fileId, email) ==
    /\ \/ \E e \in Appended(file_audit_log, file_audit_log') :
              e.file_id = fileId /\ e.operation = "download"
       \/ \E e \in Appended(access_logs, access_logs') : e.file_id = fileId
    /\ \/ \E e \in Appended(access_logs, access_logs') : e.email = email
       \/ \E e \in Appended(collection_access_logs, collection_access_logs') :
              e.email = email

C19_FileDownload ==
    \A f \in TokenFileIds : \A p \in Presented(f) :
        ( /\ DownloadFile(p.id, FileTokenAt(f, StartTime), p.t, p.email)
          /\ resp'.status = 200 )
        => DownloadRecorded(p.id, p.email)

C19_CollectionDownload ==
    \A c \in TokenCollectionIds, f \in TokenFileIds : \A p \in Presented(c) :
        ( /\ DownloadCollectionFile(c, f, CollectionTokenAt(c, StartTime),
                                    p.t, p.email, p.id)
          /\ resp'.status = 200 )
        => DownloadRecorded(f, p.email)

\* C19, as stated: every download-by-token request that streams a blob's
\* bytes, the single-file download and the collection file download alike,
\* appends an audit record of that download, naming the resource and the
\* requester's e-mail, before it responds.
C19_EveryDownloadAudited == [][C19_FileDownload /\ C19_CollectionDownload]_vars

\* The collection file download alone.
C19_CollectionDownloadsAudited == [][C19_CollectionDownload]_vars


(***************************************************************************)
(* The three logs, under every request that writes one and every request   *)
(* that writes the rows they are about                                     *)
(***************************************************************************)
LogCollections == 1
LogFiles == 1
MaxLog == 2

LogCollectionIds == {CollectionId(n) : n \in 1..LogCollections}
LogFileIds == {FileId(n) : n \in 1..LogFiles}

LogSize ==
    /\ Cardinality(DOMAIN collections) <= LogCollections
    /\ idCount <= LogFiles
    /\ Len(access_logs) <= MaxLog
    /\ Len(collection_access_logs) <= MaxLog

LogNext ==
    \/ CreateCollection("u1", Title, NoExpiry, NULL, << >>) /\ LogSize'
    \/ UploadFile("u1", GoodFile, NoExpiry, NULL, <<EmailA>>, "stored") /\ LogSize'
    \/ \E c \in LogCollectionIds, r \in R2Outcomes : AddFile("u1", c, GoodFile, r) /\ LogSize'
    \/ \E c \in LogCollectionIds : DeleteCollection("u1", c)
    \/ \E f \in LogFileIds : DeleteFile(f, FALSE)
    \/ \E f \in LogFileIds, b \in UpdateBodies : UpdateFile(f, b)
    \/ \E c \in LogCollectionIds, b \in UpdateBodies : UpdateCollection("u1", c, b)
    \/ \E f \in LogFileIds, e \in {EmailA, EmailB} : ValidateFileAccess(f, e, NULL) /\ LogSize'
    \/ \E c \in LogCollectionIds : ValidateCollectionAccess(c, EmailA, NULL) /\ LogSize'
    \/ \E f \in LogFileIds : DownloadFile(f, FileTokenAt(f, now), NumToStr(now), EmailA)
    \/ \E c \in LogCollectionIds, f \in LogFileIds :
           /\ DownloadCollectionFile(c, f, IssuedNow(c), NumToStr(now), EmailA, c)
           /\ LogSize'

LogSpec == Init /\ [][LogNext]_vars

\* s is an initial part of t.
IsPrefix(s, t) == Len(s) <= Len(t) /\ SubSeq(t, 1, Len(s)) = s

C20_Request ==
    /\ IsPrefix(access_logs, access_logs')
    /\ IsPrefix(collection_access_logs, collection_access_logs')
    /\ IsPrefix(file_audit_log, file_audit_log')

\* C20: the access log, the collection access log and the storage audit log
\* are append-only: whatever the request (upload, delete, cascade, settings
\* update, access, download), each log is a prefix of its later self.
C20_LogsAppendOnly == [][C20_Request]_vars

\* Each log holds an entry or more, a log has grown beyond its first entry,
\* and the last request was a delete or an update.
C20_Witness ==
    /\ Len(access_logs) >= 2
    /\ Len(collection_access_logs) >= 1
    /\ Len(file_audit_log) >= 2
    /\ resp.op \in {"deleteCollection", "deleteFile", "updateFile", "updateCollection"}
    /\ resp.status = 200


(***************************************************************************)
(* Ownership: user u1 creates the resources; every request to update or    *)
(* delete a file in this specification comes from u2 (these two routes     *)
(* read no identity from the request), and the routes that do read one are *)
(* called by u1 and by u2.                                                 *)
(***************************************************************************)
OwnerCollections == 2
OwnerFiles == 2

OwnerCollectionIds == {CollectionId(n) : n \in 1..OwnerCollections}
OwnerFileIds == {FileId(n) : n \in 1..OwnerFiles}

OwnerSize == Cardinality(DOMAIN collections) <= OwnerCollections /\ idCount <= OwnerFiles

OwnerNext ==
    \/ CreateCollection("u1", Title, NoExpiry, NULL, << >>) /\ OwnerSize'
    \/ UploadFile("u1", GoodFile, NoExpiry, NULL, << >>, "stored") /\ OwnerSize'
    \/ \E u \in Users, c \in OwnerCollectionIds :
           CreateSubCollection(u, c, Title) /\ OwnerSize'
    \/ \E u \in Users, c \in OwnerCollectionIds :
           AddFile(u, c, GoodFile, "stored") /\ OwnerSize'
    \/ \E u \in Users, c \in OwnerCollectionIds, b \in UpdateBodies : UpdateCollection(u, c, b)
    \/ \E u \in Users, c \in OwnerCollectionIds : DeleteCollection(u, c)
    \/ \E f \in OwnerFileIds, b \in UpdateBodies : UpdateFile(f, b)
    \/ \E f \in OwnerFileIds : DeleteFile(f, FALSE)

OwnerSpec == Init /\ [][OwnerNext]_vars

\* The request was answered 403 and no row, counter or blob changed.
Forbidden == resp'.status = 403 /\ UNCHANGED <<collections, files, bucket>>

\* u2's requests on the collections of u1 that are there.
C21_CollectionRequests ==
    \A c \in OwnerCollectionIds :
        LiveCollection(collections, c) =>
            /\ \A b \in UpdateBodies : UpdateCollection("u2", c, b) => Forbidden
            /\ DeleteCollection("u2", c) => Forbidden
            /\ AddFile("u2", c, GoodFile, "stored") => Forbidden
            /\ CreateSubCollection("u2", c, Title) => Forbidden

\* u2's requests on the files of u1 that are there.
C21_FileRequests ==
    \A f \in OwnerFileIds :
        LiveFile(files, f) =>
            /\ \A b \in UpdateBodies : UpdateFile(f, b) => Forbidden
            /\ DeleteFile(f, FALSE) => Forbidden

\* C21, as stated: every mutating operation on an existing resource (update
\* of a file's or a collection's settings, delete file, delete collection,
\* add file to a collection, create sub-collection) that an identity other
\* than the owner requests is answered Forbidden and changes no row, no
\* counter and no blob.
C21_NonOwnerRejected == [][C21_CollectionRequests /\ C21_FileRequests]_vars

\* The same for the routes on collections alone.
C21_NonOwnerRejectedOnCollections == [][C21_CollectionRequests]_vars


\* u1's requests on a sub-collection u1 created under a root collection of
\* u1's: none is answered Access denied.
NotDenied == ~(resp'.status = 403 /\ resp'.error = "Access denied")

C27_Request ==
    \A c \in OwnerCollectionIds :
        ( /\ LiveCollection(collections, c)
          /\ Truthy(collections[c].parent_id)
          /\ collections[RootOf(collections, c)].user_id = "u1" )
        => /\ CreateSubCollection("u1", c, Title) => NotDenied
           /\ AddFile("u1", c, GoodFile, "stored") => NotDenied
           /\ \A b \in UpdateBodies : UpdateCollection("u1", c, b) => NotDenied
           /\ DeleteCollection("u1", c) => NotDenied

\* C27, as stated: the user who owns a root collection and created a
\* sub-collection under it is treated as the owner of the sub-collection: that
\* user's authenticated requests to create a child under it, to add a file to
\* it, to update it and to delete it are not rejected with Access denied.
C27_CreatorOwnsSubCollection == [][C27_Request]_vars

\* The same user's requests on the root collection itself.
C27_OwnerOfRoot ==
    [][\A c \in OwnerCollectionIds :
          ( /\ LiveCollection(collections, c)
            /\ ~Truthy(collections[c].parent_id)
            /\ collections[c].user_id = "u1" )
          => /\ CreateSubCollection("u1", c, Title) => NotDenied
             /\ AddFile("u1", c, GoodFile, "stored") => NotDenied
             /\ \A b \in UpdateBodies : UpdateCollection("u1", c, b) => NotDenied
             /\ DeleteCollection("u1", c) => NotDenied]_vars


(***************************************************************************)
(* What validating access or a token writes                                *)
(***************************************************************************)
ValidationOps ==
    {"validateFileAccess", "validateCollectionAccess", "downloadFile",
     "getCollectionContents", "downloadCollectionFile"}

\* C22, as stated: validate-access and the token validation of a download or
\* a browse request change nothing in the resource store or the blob store
\* but the log entries they append: no field of a file or a collection,
\* counters included, differs after the request, granted or rejected.
C22_ValidationWritesOnlyLogs ==
    [][resp'.op \in ValidationOps => UNCHANGED <<collections, files, bucket>>]_vars

\* The same for the requests that are rejected, and for the browse and the
\* single-file download requests whatever their answer.
C22_RejectionsWriteOnlyLogs ==
    [][( /\ resp'.op \in ValidationOps
         /\ \/ resp'.status # 200
            \/ resp'.op \in {"downloadFile", "getCollectionContents",
                             "validateCollectionAccess"} )
       => UNCHANGED <<collections, files, bucket>>]_vars

\* But for download_count, no field differs.
C22_OnlyDownloadCountWritten ==
    [][resp'.op \in ValidationOps =>
          /\ UNCHANGED <<collections, bucket>>
          /\ DOMAIN files' = DOMAIN files
          /\ \A f \in DOMAIN files :
                 [files'[f] EXCEPT !.download_count = 0]
                     = [files[f] EXCEPT !.download_count = 0]]_vars


(***************************************************************************)
(* Status of a rejected validate-access request                            *)
(***************************************************************************)
\* The status of the error class of a rejection.
StatusOfClass(reason) ==
    IF reason = "not-found" THEN 404
    ELSE IF reason = "expired" THEN 410
    ELSE 401

EvaluationRejections ==
    {"not-found", "expired", "email-not-authorized", "password-required",
     "incorrect-password"}

\* C23, as stated: every rejection of a validate-access request, for a file
\* or for a collection, carries the status of its error class: 404 when the
\* resource is absent or deleted, 410 when the policy has expired, 401 when
\* the e-mail is not on the allow-list, the password is missing or the
\* password is incorrect.
C23_RejectionStatus ==
    ( /\ resp.op \in {"validateFileAccess", "validateCollectionAccess"}
      /\ ReasonGiven(resp) \in EvaluationRejections )
    => resp.status = StatusOfClass(ReasonGiven(resp))

\* The file route, but for the e-mail that is not on the allow-list.
C23_FileRejectionStatus ==
    ( /\ resp.op = "validateFileAccess"
      /\ ReasonGiven(resp) \in EvaluationRejections \ {"email-not-authorized"} )
    => resp.status = StatusOfClass(ReasonGiven(resp))

\* What the code answers where the claim says otherwise.
C23_ForbiddenInstead ==
    ( /\ resp.op \in {"validateFileAccess", "validateCollectionAccess"}
      /\ ReasonGiven(resp) \in EvaluationRejections
      /\ resp.status # StatusOfClass(ReasonGiven(resp)) )
    => /\ resp.status = 403
       /\ \/ resp.op = "validateCollectionAccess"
          \/ ReasonGiven(resp) = "email-not-authorized"


(***************************************************************************)
(* Allow-lists: collections and files with and without an allow-list, and  *)
(* requesters whose e-mail differs from an entry in case only, or in more  *)
(***************************************************************************)
EmailCollections == 2
EmailFiles == 1

EmailCollectionIds == {CollectionId(n) : n \in 1..EmailCollections}
EmailFileIds == {FileId(n) : n \in 1..EmailFiles}

AllowLists == {<< >>, <<EmailA>>, <<EmailB, EmailAUpper>>}

EmailSize ==
    /\ Cardinality(DOMAIN collections) <= EmailCollections
    /\ idCount <= EmailFiles
    /\ Len(access_logs) + Len(collection_access_logs) <= MaxAccessLog

EmailNext ==
    \/ \E l \in AllowLists : CreateCollection("u1", Title, NoExpiry, NULL, l) /\ EmailSize'
    \/ \E c \in EmailCollectionIds : CreateSubCollection("u1", c, Title) /\ EmailSize'
    \/ \E l \in AllowLists :
           UploadFile("u1", GoodFile, NoExpiry, NULL, l, "stored") /\ EmailSize'
    \/ \E c \in EmailCollectionIds : AddFileUnauth(c, GoodFile, "stored") /\ EmailSize'
    \/ \E f \in EmailFileIds, e \in Emails : ValidateFileAccess(f, e, NULL) /\ EmailSize'
    \/ \E c \in EmailCollectionIds, e \in Emails :
           ValidateCollectionAccess(c, e, NULL) /\ EmailSize'

EmailSpec == Init /\ [][EmailNext]_vars

\* The e-mail check of the last validate-access request rejected it.
EmailRejected == resp.status # 200 /\ ReasonGiven(resp) = "email-not-authorized"

\* C24, as stated: when the effective allow-list is non-empty, validate-access
\* admits the requester's e-mail exactly when it equals an entry of the list
\* after lower-casing both sides, and an empty allow-list admits every
\* e-mail.
C24_AllowListIgnoresCase ==
    /\ ( Validated("validateFileAccess") /\ LiveFile(files, resp.req.id) )
       => ( EmailRejected
            <=> ~PolicyListsEmail(EffectiveFilePolicy(collections, files, resp.req.id),
                                  resp.req.email) )
    /\ ( Validated("validateCollectionAccess") /\ LiveCollection(collections, resp.req.id) )
       => ( EmailRejected
            <=> ~PolicyListsEmail(EffectiveCollectionPolicy(collections, resp.req.id),
                                  resp.req.email) )

\* The same with the allow-list of the file's own row for every file, and
\* the root's for collections.
C24_OwnAllowListIgnoresCase ==
    /\ ( Validated("validateFileAccess") /\ LiveFile(files, resp.req.id) )
       => ( EmailRejected <=> ~PolicyListsEmail(files[resp.req.id], resp.req.email) )
    /\ ( Validated("validateCollectionAccess") /\ LiveCollection(collections, resp.req.id) )
       => ( EmailRejected
            <=> ~PolicyListsEmail(EffectiveCollectionPolicy(collections, resp.req.id),
                                  resp.req.email) )


(***************************************************************************)
(* Outcomes of a failed token validation                                   *)
(***************************************************************************)
\* A token that is not the hash of the presented parameters.
ForeignFileToken(f, i) == sha256(TokenData(f, EmailB, NumToStr(i)))
ForeignCollectionToken(c, i) == generateCollectionToken(c, EmailB, i)

\* The file download route: a missing parameter is rejected; otherwise a
\* timestamp older than the window gets the expired answer, whatever the
\* hash; otherwise a hash mismatch gets another answer, the invalid link.
C25_FileDownload ==
    \A f \in TokenFileIds, i \in IssueInstants, j \in IssueInstants :
        LET Decide(token, t) ==
                FileDownloadDecision(files, bucket, f, token, t, EmailA, now)
            missing == Decide(NULL, NumToStr(i))
            old == Decide(FileTokenAt(f, i), NumToStr(i))
            oldForeign == Decide(ForeignFileToken(f, i), NumToStr(i))
            foreign == Decide(ForeignFileToken(f, j), NumToStr(j))
        IN /\ missing.status = 400
           /\ (now - i > FiveMinutes /\ now - j <= FiveMinutes) =>
                 /\ old.status \notin {200, 400}
                 /\ oldForeign = old
                 /\ foreign.status \notin {200, 400}
                 /\ foreign # old

\* The browse and the collection download routes: the same, and a target
\* that is not under the root the token names gets access denied.
C25_CollectionRoutes ==
    \A c \in TokenCollectionIds, f \in TokenFileIds, i \in IssueInstants, j \in IssueInstants :
        LET Browse(token, t) == ContentsDecision(collections, c, token, t, EmailA, c, now)
            Fetch(token, t) ==
                CollectionDownloadDecision(collections, files, bucket, c, f, token, t,
                                           EmailA, c, now)
        IN /\ Browse(NULL, NumToStr(i)).status \notin {200}
           /\ Fetch(NULL, NumToStr(i)).status \notin {200}
           /\ (now - i > ThirtyMinutes /\ now - j <= ThirtyMinutes) =>
                 /\ Browse(ForeignCollectionToken(c, i), NumToStr(i))
                        = Browse(CollectionTokenAt(c, i), NumToStr(i))
                 /\ Browse(ForeignCollectionToken(c, j), NumToStr(j))
                        # Browse(CollectionTokenAt(c, i), NumToStr(i))
                 /\ Fetch(ForeignCollectionToken(c, i), NumToStr(i))
                        = Fetch(CollectionTokenAt(c, i), NumToStr(i))
                 /\ Fetch(ForeignCollectionToken(c, j), NumToStr(j))
                        # Fetch(CollectionTokenAt(c, i), NumToStr(i))

\* A target outside the root the (valid) token names: access denied.
C25_OutsideRoot ==
    \A c \in TokenCollectionIds, i \in IssueInstants :
        LET other == CollectionId(TokenCollections + 1)
            d == ContentsDecision(collections, c, CollectionTokenAt(other, i),
                                  NumToStr(i), EmailA, other, now)
        IN (now - i <= ThirtyMinutes /\ LiveCollection(collections, c)) =>
               d = Answer(403, "Access denied to this collection")

\* C25, as stated: a token-bearing request is rejected with a distinct
\* outcome per failure: a missing parameter is rejected; otherwise a
\* timestamp older than the window gets the expired rejection; otherwise a
\* hash mismatch gets the invalid-link rejection; otherwise a target not
\* under the claimed root gets access denied; and the file download, the
\* collection download and the browse handler each tell the expired
\* rejection from the invalid-link rejection.
C25_DistinctOutcomes == C25_FileDownload /\ C25_CollectionRoutes /\ C25_OutsideRoot

\* The file download route, and access denied outside the root.
C25_FileOutcomesDistinct == C25_FileDownload /\ C25_OutsideRoot


(***************************************************************************)
(* Expiry between the issue of a token and its use: resources that expire  *)
(* a second after StartTime, tokens issued at StartTime, and downloads     *)
(* before and after the clock has moved on by 299 seconds                  *)
(***************************************************************************)
ExpiryCollections == 1
ExpiryFiles == 2
LaterOn == 299000

ExpiryCollectionIds == {CollectionId(n) : n \in 1..ExpiryCollections}
ExpiryFileIds == {FileId(n) : n \in 1..ExpiryFiles}

ExpirySize ==
    /\ Cardinality(DOMAIN collections) <= ExpiryCollections
    /\ idCount <= ExpiryFiles
    /\ Len(access_logs) <= MaxAccessLog
    /\ Len(collection_access_logs) <= MaxAccessLog

ExpiryNext ==
    \/ \E e \in {NoExpiry, SoonExpiry} :
           CreateCollection("u1", Title, e, NULL, << >>) /\ ExpirySize'
    \/ \E e \in {NoExpiry, SoonExpiry} :
           UploadFile("u1", GoodFile, e, NULL, << >>, "stored") /\ ExpirySize'
    \/ \E c \in ExpiryCollectionIds : AddFile("u1", c, GoodFile, "stored") /\ ExpirySize'
    \/ \E f \in ExpiryFileIds : ValidateFileAccess(f, EmailA, NULL) /\ ExpirySize'
    \/ \E c \in ExpiryCollectionIds : ValidateCollectionAccess(c, EmailA, NULL) /\ ExpirySize'
    \/ now = StartTime /\ Tick(LaterOn)
    \/ \E f \in ExpiryFileIds :
           DownloadFile(f, FileTokenAt(f, StartTime), NumToStr(StartTime), EmailA)
    \/ \E c \in ExpiryCollectionIds, f \in ExpiryFileIds :
           /\ DownloadCollectionFile(c, f, CollectionTokenAt(c, StartTime),
                                     NumToStr(StartTime), EmailA, c)
           /\ ExpirySize'

ExpirySpec == Init /\ [][ExpiryNext]_vars

\* The effective expires_at of a file that is there has passed.
FileLapsed(f) ==
    LiveFile(files, f) /\ PolicyExpired(EffectiveFilePolicy(collections, files, f), now)

C26_FileDownload ==
    \A f \in ExpiryFileIds :
        ( /\ FileLapsed(f)
          /\ DownloadFile(f, FileTokenAt(f, StartTime), NumToStr(StartTime), EmailA) )
        => resp'.status # 200

C26_CollectionDownload ==
    \A c \in ExpiryCollectionIds, f \in ExpiryFileIds :
        ( /\ FileLapsed(f)
          /\ DownloadCollectionFile(c, f, CollectionTokenAt(c, StartTime),
                                    NumToStr(StartTime), EmailA, c) )
        => resp'.status # 200

\* C26, as stated: a download-by-token request for a resource whose effective
\* expires_at has passed by the time of the download is rejected and streams
\* no bytes, even when the token was issued before the expiry and is still
\* inside its validity window, for single-file downloads and for collection
\* file downloads.
C26_ExpiredNotServed == [][C26_FileDownload /\ C26_CollectionDownload]_vars

\* The collection file download alone.
C26_ExpiredNotServedFromCollection == [][C26_CollectionDownload]_vars


(***************************************************************************)
(* POST /api/share/collections/[id]/collections, statement by statement    *)
(***************************************************************************)
\* validateToken, the title check, then
\* SELECT id, depth, user_id FROM collections WHERE id = ? AND is_deleted = 0
CreateSubSelect(p, user, parentId, title) ==
    LET req == [user |-> user, parentId |-> parentId, title |-> title]
        Refuse(status, error) ==
            /\ resp' = Reject("createSubCollection", req, status, error)
            /\ UNCHANGED running
    IN
    /\ running[p] = Idle
    /\ UNCHANGED <<store, now>>
    /\ IF user = NoUser THEN Refuse(401, "Authentication required")
       ELSE IF ~Truthy(trim(title)) THEN Refuse(400, "Title is required")
       ELSE IF ~LiveCollection(collections, parentId)
       THEN Refuse(404, "Parent collection not found")
       ELSE IF collections[parentId].user_id # user THEN Refuse(403, "Access denied")
       ELSE IF DepthLimitReached(collections[parentId].depth)
       THEN Refuse(400, "Maximum nesting depth reached")
       ELSE /\ Run(p, [pc |-> "insert", op |-> "createSubCollection", req |-> req,
                       parentId |-> parentId, title |-> trim(title),
                       newDepth |-> collections[parentId].depth + 1,
                       collectionId |-> NULL])
            /\ UNCHANGED resp

\* generateFileId, then INSERT INTO collections (id, parent_id, title, subtitle, depth, item_count)
CreateSubInsert(p) ==
    /\ At(p, "createSubCollection", "insert")
    /\ collections' = Insert(collections, NewCollectionId,
                             CollectionRow(running[p].parentId, running[p].title,
                                           running[p].newDepth, NoUser, NoExpiry, NULL, << >>))
    /\ Run(p, [running[p] EXCEPT !.pc = "count", !.collectionId = NewCollectionId])
    /\ UNCHANGED <<files, bucket, file_audit_log, access_logs, collection_access_logs,
                   idCount, now, resp>>

\* UPDATE collections SET item_count = item_count + 1 WHERE id = parentId
CreateSubCount(p) ==
    /\ At(p, "createSubCollection", "count")
    /\ collections' = AdjustItemCount(collections, running[p].parentId, 1)
    /\ resp' = Reply("createSubCollection", running[p].req, 201, "",
                     [id |-> running[p].collectionId, depth |-> running[p].newDepth])
    /\ Finish(p)
    /\ UNCHANGED <<files, bucket, file_audit_log, access_logs, collection_access_logs,
                   idCount, now>>

(***************************************************************************)
(* Concurrent requests on the tree: a signed-in owner creates root         *)
(* collections and sub-collections and deletes collections, up to          *)
(* MaxRunning requests under way at once.                                  *)
(***************************************************************************)
NestCollections == 3

NestCollectionIds == {CollectionId(n) : n \in 1..NestCollections}

NestSize == Cardinality(DOMAIN collections) <= NestCollections

NestNext ==
    \/ CreateCollection("u1", Title, NoExpiry, Secret, <<EmailA>>) /\ NestSize'
    \/ \E p \in Procs, c \in NestCollectionIds : CreateSubSelect(p, "u1", c, Title)
    \/ \E p \in Procs : CreateSubInsert(p) /\ NestSize'
    \/ \E p \in Procs : CreateSubCount(p)
    \/ \E p \in Procs, c \in NestCollectionIds : DeleteCollectionSelect(p, "u1", c)
    \/ \E p \in Procs : DeleteCollectionCascade(p)
    \/ \E p \in Procs : DeleteCollectionFiles(p)
    \/ \E p \in Procs : DeleteCollectionParent(p)

NestSpec == Init /\ [][NestNext]_vars

\* C28, as stated: in every reachable state, the states included that the
\* interleaved statements of a create-sub-collection request and of a
\* delete-collection request on its parent or an ancestor pass through, every
\* non-deleted collection with a non-null parent_id has a non-deleted parent;
\* hence the breadcrumb walk from a non-deleted collection ends at a
\* collection with parent_id null, and checkCollectionAccess never takes a
\* sub-collection's own (empty) policy fields for the root's.
C28_LiveParent ==
    \A c \in DOMAIN collections :
        ~collections[c].is_deleted =>
            /\ Truthy(collections[c].parent_id) =>
                   LiveCollection(collections, collections[c].parent_id)
            /\ ~Truthy(collections[PolicyCollection(getCollectionBreadcrumbs(collections, c))]
                           .parent_id)
            /\ \A e \in {EmailA, EmailB} : \A pw \in {NULL, Secret} :
                   checkCollectionAccess(collections, c, e, pw, now).allowed
                       => (e = EmailA /\ pw = Secret)

\* The same between requests only.
C28_BetweenRequests == Quiet => C28_LiveParent


(***************************************************************************)
(* Concurrent deletes: collections are created and filled by requests that *)
(* run alone, and up to MaxRunning delete-file and delete-collection       *)
(* requests run statement by statement.                                    *)
(***************************************************************************)
TwinNext ==
    \/ CreateCollection("u1", Title, NoExpiry, NULL, << >>) /\ StepSize'
    \/ \E c \in StepCollectionIds : CreateSubCollectionUnauth(c, Title) /\ StepSize'
    \/ \E c \in StepCollectionIds : AddFileUnauth(c, GoodFile, "stored") /\ StepSize'
    \/ \E p \in Procs, f \in StepFileIds : DeleteFileSelect(p, f)
    \/ \E p \in Procs : DeleteFileBlob(p, FALSE)
    \/ \E p \in Procs : DeleteFileAudit(p)
    \/ \E p \in Procs : DeleteFileMark(p)
    \/ \E p \in Procs : DeleteFileCount(p)
    \/ \E p \in Procs, c \in StepCollectionIds : DeleteCollectionSelect(p, "u1", c)
    \/ \E p \in Procs : DeleteCollectionCascade(p)
    \/ \E p \in Procs : DeleteCollectionFiles(p)
    \/ \E p \in Procs : DeleteCollectionParent(p)

TwinSpec == Init /\ [][TwinNext]_vars

\* C29, as stated: when two delete requests for the same file, or for the
\* same sub-collection, run with their statements interleaved in any order,
\* the parent collection's item_count is decremented exactly once, so
\* item_count never falls below the number of non-deleted direct children and
\* never becomes negative.
C29_CountedOnce ==
    \A c \in DOMAIN collections :
        /\ collections[c].item_count >= LiveChildCount(c)
        /\ collections[c].item_count >= 0


(***************************************************************************)
(* Timestamps ahead of the clock                                           *)
(***************************************************************************)
\* The token validation of the file download route let the request through:
\* none of its three rejections was the answer.  (The tokens are those of
\* the files and collections that are there.)
PassedFileToken(d) == d.status \notin {400, 410, 403}

\* C30, as stated: token validation accepts a tuple only when its timestamp
\* is not later than the current time: a file or a collection token whose
\* timestamp lies in the future is rejected, so that no tuple stays valid for
\* longer than one validity window from the moment it is first accepted.
C30_NoFutureTimestamp ==
    \A i \in Instants :
        /\ \A f \in TokenFileIds \cap DOMAIN files :
               PassedFileToken(FileDownloadDecision(files, bucket, f, FileTokenAt(f, i),
                                                    NumToStr(i), EmailA, now))
                   => i <= now
        /\ \A c \in TokenCollectionIds \cap DOMAIN collections :
               validateCollectionToken(c, EmailA, CollectionTokenAt(c, i), i, now)
                   => i <= now

\* Token validation accepts no tuple older than its window.
C30_NoOldTimestamp ==
    \A i \in Instants :
        /\ \A f \in TokenFileIds \cap DOMAIN files :
               PassedFileToken(FileDownloadDecision(files, bucket, f, FileTokenAt(f, i),
                                                    NumToStr(i), EmailA, now))
                   => now - i <= TOKEN_VALIDITY_MS
        /\ \A c \in TokenCollectionIds \cap DOMAIN collections :
               validateCollectionToken(c, EmailA, CollectionTokenAt(c, i), i, now)
                   => now - i <= COLLECTION_TOKEN_VALIDITY_MS

=============================================================================
